---- MODULE Spec2Model ----
(***************************************************************************)
(* Verification model of pwatsonwailes/internal-linker.                    *)
(*                                                                         *)
(* Part 1: the WorkerPool (task scheduler) of utils/workerPool.            *)
(*                                                                         *)
(* The pool runs on the single-threaded event loop: every handler (a       *)
(* public method call, a worker message, a worker error event, the         *)
(* shutdown timer) runs to completion before the next one starts, so one   *)
(* action of the model is one whole handler, nested calls included.        *)
(* restartWorker is an async function without any await: its body runs     *)
(* synchronously inside the caller, and the .then(() => processQueue())    *)
(* continuation runs as a microtask before any other event is handled.     *)
(*                                                                         *)
(* Platform behaviour assumed for Worker objects (HTML "terminate a        *)
(* worker"): terminate() discards the tasks the unit has received and the  *)
(* messages it has posted but that have not been delivered yet; a          *)
(* postMessage to a terminated unit is silently dropped; the Worker        *)
(* constructor succeeds on restart because it is called with the script    *)
(* and options the pool was constructed with.                              *)
(***************************************************************************)
EXTENDS Integers, Sequences, FiniteSets, TLC

\* ------------------------------------------------------------------ bounds
PoolSize == 2            \* workers of the pool in Spec
MaxTasks == 4            \* addTask calls in a behaviour of Spec
MaxShutdownCalls == 1    \* shutdown() calls in a behaviour

NoTask == 0              \* null task id / null worker (ids and indexes start at 1)

VARIABLES
    workers,        \* WorkerInfo[]: [isBusy, taskId] plus the execution unit in .worker
    taskQueue,      \* queue of accepted, not yet dispatched tasks (task ids)
    taskPromises,   \* keys of the Map taskId -> {resolve, reject}
    shuttingDown,   \* the pool's shuttingDown flag
    future,         \* task id -> state of the promise addTask returned
    settleCalls,    \* task id -> number of resolve/reject calls made on that promise
    posts,          \* task id -> number of worker.postMessage(task) calls that returned
    liveUnits,      \* number of Worker objects created and not terminated
    dispatches,     \* the dispatches made by the handler that ran last, in order
    shutdownTimers, \* shutdown() calls waiting in their 100 ms timeout
    shutdownCalls,  \* shutdown() calls made so far
    app,            \* the App component: refs, React state and the tasks of its runs
    db,             \* the persistence layer (processing status, similarity results)
    vec,            \* module state of workers/modules/vectorization on the main thread
    ret             \* what the call made last returned to its caller

poolVars == <<workers, taskQueue, taskPromises, shuttingDown, future, settleCalls,
              posts, liveUnits, dispatches, shutdownTimers, shutdownCalls>>

vars == <<workers, taskQueue, taskPromises, shuttingDown, future, settleCalls,
          posts, liveUnits, dispatches, shutdownTimers, shutdownCalls,
          app, db, vec, ret>>

\* The number of tasks submitted so far; task ids are 1, 2, ... in submission order.
Submitted == Len(future)
Tasks == 1..Submitted

\* -------------------------------------------------------- execution units
\* new Worker(script, options): a live unit that holds no task.
\* gen counts the units created for the slot, inbox is the sequence of tasks the
\* unit has received and not reported an outcome for.
NewUnit(g) == [alive |-> TRUE, inbox |-> <<>>, gen |-> g]

\* worker.terminate(): the unit stops, the tasks it holds are lost.
terminate(u) == [u EXCEPT !.alive = FALSE, !.inbox = <<>>]

\* worker.postMessage(task) on a unit: a terminated unit drops the message.
deliver(u, t) == IF u.alive THEN [u EXCEPT !.inbox = Append(@, t)] ELSE u

\* WorkerInfo as the constructor builds it.
NewWorkerInfo == [isBusy |-> FALSE, taskId |-> NoTask, worker |-> NewUnit(1)]

\* ------------------------------------------------------------- pool state
\* The pool and the promises it has handed out, as one value the handlers transform.
Pool ==
    [workers |-> workers, taskQueue |-> taskQueue, taskPromises |-> taskPromises,
     shuttingDown |-> shuttingDown, future |-> future, settleCalls |-> settleCalls,
     posts |-> posts, liveUnits |-> liveUnits, dispatches |-> <<>>]

\* Op applied to the value of S0. The handlers below thread the pool through nested
\* calls; binding each intermediate pool to its value keeps every step evaluated once.
Then(S0, Op(_)) == CHOOSE R \in {Op(S) : S \in {S0}} : TRUE

\* The pool fields take the values of S0.
InstallPool(S0) ==
    \E S \in {S0} :
        /\ workers' = S.workers
        /\ taskQueue' = S.taskQueue
        /\ taskPromises' = S.taskPromises
        /\ shuttingDown' = S.shuttingDown
        /\ future' = S.future
        /\ settleCalls' = S.settleCalls
        /\ posts' = S.posts
        /\ liveUnits' = S.liveUnits
        /\ dispatches' = S.dispatches

\* A handler of the pool: nothing outside the pool changes.
Install(S0) == InstallPool(S0) /\ UNCHANGED <<app, db, vec, ret>>

\* resolve(value) of the promise of task t: only the first settle call has an effect.
resolve(S, t) ==
    [S EXCEPT !.future[t] = IF @ = "pending" THEN "resolved" ELSE @,
              !.settleCalls[t] = @ + 1]

\* reject(reason) of the promise of task t; why is "error" or "cancelled".
reject(S, t, why) ==
    [S EXCEPT !.future[t] = IF @ = "pending" THEN why ELSE @,
              !.settleCalls[t] = @ + 1]

\* this.taskPromises.delete(taskId)
deletePromise(S, t) == [S EXCEPT !.taskPromises = @ \ {t}]

\* ---------------------------------------------------------- the scheduler
\* The lowest index of the set I.
MinOf(I) == CHOOSE i \in I : \A j \in I : i <= j

IdleWorkers(S) == {i \in DOMAIN S.workers : ~S.workers[i].isBusy}

\* Mutant of findAvailableWorker: the busy flag is not looked at.
findAnyWorker(S) ==
    IF DOMAIN S.workers = {} THEN 0 ELSE MinOf(DOMAIN S.workers)

\* this.workers.find(w => !w.isBusy) || null, as an index (0 for null)
findAvailableWorker(S) ==
    IF IdleWorkers(S) = {} THEN 0 ELSE MinOf(IdleWorkers(S))

\* What a dispatch saw when it was made: the task taken, the worker chosen, the ids
\* waiting in the queue, the idle workers, what the chosen unit still held, and
\* which unit of the slot it was.
DispatchRecord(S, task, w) ==
    [task |-> task.id, worker |-> w,
     queued |-> {S.taskQueue[i].id : i \in DOMAIN S.taskQueue},
     idle |-> IdleWorkers(S),
     held |-> Len(S.workers[w].worker.inbox),
     gen |-> S.workers[w].worker.gen]

\* const { task, resolve, reject } = this.taskQueue.shift()
shift(S) == [S EXCEPT !.taskQueue = Tail(@)]

RECURSIVE processQueue(_)
RECURSIVE markWorkerIdle(_, _)

processQueue(S0) ==
    Then(S0, LAMBDA S :
        IF S.taskQueue = <<>> \/ S.shuttingDown
        THEN S
        ELSE LET w == findAvailableWorker(S) IN
             IF w = 0
             THEN S
             ELSE LET task == Head(S.taskQueue)
                      t == task.id
                      S1 == [shift(S) EXCEPT
                                !.workers[w].isBusy = TRUE,
                                !.workers[w].taskId = t,
                                !.taskPromises = @ \cup {t},
                                !.dispatches = Append(@, DispatchRecord(S, task, w))]
                  IN IF task.cloneable
                     THEN [S1 EXCEPT !.workers[w].worker = deliver(@, t),
                                     !.posts[t] = @ + 1]
                     ELSE \* postMessage threw (DataCloneError): the catch branch
                          markWorkerIdle(deletePromise(reject(S1, t, "error"), t), w))

markWorkerIdle(S0, w) ==
    Then(S0, LAMBDA S :
        IF S.workers[w].isBusy
        THEN processQueue([S EXCEPT !.workers[w].isBusy = FALSE,
                                    !.workers[w].taskId = NoTask])
        ELSE S)

\* Mutant of handleWorkerMessage: the worker is not marked idle after its outcome.
handleWorkerMessageNoFree(S0, w, msg) ==
    Then(S0, LAMBDA S :
        LET t == msg.taskId
            known == t \in S.taskPromises
        IN IF t = NoTask THEN S
           ELSE IF msg.type = "result"
           THEN processQueue(deletePromise(IF known THEN resolve(S, t) ELSE S, t))
           ELSE IF msg.type = "error"
           THEN processQueue(
                    deletePromise(IF known THEN reject(S, t, "error") ELSE S, t))
           ELSE S)

\* ------------------------------------------------------ message handlers
\* msg is the event's data: [type, taskId].
handleWorkerMessage(S0, w, msg) ==
    Then(S0, LAMBDA S :
        LET t == msg.taskId
            known == t \in S.taskPromises      \* promiseCallbacks is defined
        IN IF t = NoTask THEN S
           ELSE IF msg.type = "result"
           THEN processQueue(markWorkerIdle(
                    deletePromise(IF known THEN resolve(S, t) ELSE S, t), w))
           ELSE IF msg.type = "error"
           THEN processQueue(markWorkerIdle(
                    deletePromise(IF known THEN reject(S, t, "error") ELSE S, t), w))
           ELSE S)                             \* progress, log, unknown type: logged only

\* The messages of the error events the workers of this repository raise; none of
\* them contains the words "task id".
criticalErrors ==
    {"Failed to load script", "Out of memory", "Worker terminated",
     "SecurityError", "NetworkError"}

\* Mutant of isWorkerCriticalError: every failure is classified as critical.
everyErrorCritical(error) == TRUE

\* error is [type, message, error], error.error being the class of the thrown value.
isWorkerCriticalError(error) ==
    /\ error.type = "error"
    /\ \/ error.message \in criticalErrors
       \/ error.error = "TypeError"
       \/ error.error = "ReferenceError"

\* error.message?.match(/task(?:\s+|_|-)id[:\s]+([a-zA-Z0-9-]+)/i): no match on the
\* messages above.
extractTaskIdFromError(error) == NoTask

\* async restartWorker: terminate the old unit, create a new one, reset the slot.
restartWorker(S0, w) ==
    Then(S0, LAMBDA S :
        LET oldWorker == S.workers[w].worker IN
        [S EXCEPT !.workers[w] = [isBusy |-> FALSE, taskId |-> NoTask,
                                  worker |-> NewUnit(oldWorker.gen + 1)],
                  !.liveUnits = @ + 1 - (IF oldWorker.alive THEN 1 ELSE 0)])

\* Mutant of handleWorkerError: the failed task is put back in the queue (a retry).
handleWorkerErrorRetry(S0, w, error, taskId) ==
    Then(S0, LAMBDA S :
        LET effectiveTaskId ==
                IF taskId # NoTask THEN taskId
                ELSE IF S.workers[w].taskId # NoTask THEN S.workers[w].taskId
                ELSE extractTaskIdFromError(error)
            S1 == IF effectiveTaskId # NoTask /\ effectiveTaskId \in S.taskPromises
                  THEN [deletePromise(reject(S, effectiveTaskId, "error"),
                                      effectiveTaskId)
                           EXCEPT !.taskQueue =
                                    Append(@, [id |-> effectiveTaskId, cloneable |-> TRUE])]
                  ELSE S
            S2 == markWorkerIdle(S1, w)
        IN IF isWorkerCriticalError(error)
           THEN processQueue(restartWorker(S2, w))
           ELSE processQueue(S2))

handleWorkerError(S0, w, error, taskId) ==
    Then(S0, LAMBDA S :
        LET effectiveTaskId ==
                IF taskId # NoTask THEN taskId
                ELSE IF S.workers[w].taskId # NoTask THEN S.workers[w].taskId
                ELSE extractTaskIdFromError(error)
            S1 == IF effectiveTaskId # NoTask /\ effectiveTaskId \in S.taskPromises
                  THEN deletePromise(reject(S, effectiveTaskId, "error"), effectiveTaskId)
                  ELSE S
            S2 == markWorkerIdle(S1, w)
        IN IF isWorkerCriticalError(error)
           THEN processQueue(restartWorker(S2, w))  \* restartWorker(..).then(processQueue)
           ELSE processQueue(S2))

\* worker.onerror / newWorker.onerror
onerror(S0, w, event) ==
    Then(S0, LAMBDA S :
        handleWorkerError([S EXCEPT !.workers[w].taskId = NoTask], w, event,
                          S.workers[w].taskId))

\* worker.onmessageerror / newWorker.onmessageerror
onmessageerror(S0, w) ==
    Then(S0, LAMBDA S :
        handleWorkerError([S EXCEPT !.workers[w].taskId = NoTask], w,
                          [type |-> "messageerror",
                           message |-> "Malformed message received", error |-> "none"],
                          S.workers[w].taskId))

\* Mutant of addTask: the task is put at the front of the queue (unshift for push).
addTaskUnshift(S0, task) ==
    Then(S0, LAMBDA S :
        IF S.shuttingDown
        THEN [S EXCEPT !.future = Append(@, "shuttingDown"),
                       !.settleCalls = Append(@, 1),
                       !.posts = Append(@, 0)]
        ELSE processQueue([S EXCEPT !.taskQueue = <<task>> \o @,
                                    !.future = Append(@, "pending"),
                                    !.settleCalls = Append(@, 0),
                                    !.posts = Append(@, 0)]))

\* Mutant of addTask: the shuttingDown flag is not looked at.
addTaskAlways(S0, task) ==
    Then(S0, LAMBDA S :
        processQueue([S EXCEPT !.taskQueue = Append(@, task),
                               !.future = Append(@, "pending"),
                               !.settleCalls = Append(@, 0),
                               !.posts = Append(@, 0)]))

\* -------------------------------------------------------- public methods
\* addTask: a pool that is shutting down returns Promise.reject(...) and queues
\* nothing; otherwise the executor of the new promise queues the task.
addTask(S0, task) ==
    Then(S0, LAMBDA S :
        IF S.shuttingDown
        THEN [S EXCEPT !.future = Append(@, "shuttingDown"),
                       !.settleCalls = Append(@, 1),
                       !.posts = Append(@, 0)]
        ELSE processQueue([S EXCEPT !.taskQueue = Append(@, task),
                                    !.future = Append(@, "pending"),
                                    !.settleCalls = Append(@, 0),
                                    !.posts = Append(@, 0)]))

\* Mutant of rejectAll: the map is cleared without a reject call.
rejectNone(S0, ids) == S0

RECURSIVE rejectAll(_, _)
\* this.taskPromises.forEach(({reject}) => reject(new Error("Task cancelled by user.")))
rejectAll(S0, ids) ==
    Then(S0, LAMBDA S :
        IF ids = {} THEN S
        ELSE LET t == MinOf(ids) IN rejectAll(reject(S, t, "cancelled"), ids \ {t}))

RECURSIVE restartAll(_, _)
\* busyWorkers.forEach: terminate the unit, reset the slot, restartWorker
restartAll(S0, ws) ==
    Then(S0, LAMBDA S :
        IF ws = {} THEN S
        ELSE LET w == MinOf(ws)
                 old == S.workers[w].worker
                 S1 == [S EXCEPT !.workers[w].worker = terminate(old),
                                 !.workers[w].isBusy = FALSE,
                                 !.workers[w].taskId = NoTask,
                                 !.liveUnits = @ - (IF old.alive THEN 1 ELSE 0)]
             IN restartAll(restartWorker(S1, w), ws \ {w}))

cancelAllTasks(S0) ==
    Then(S0, LAMBDA S :
        LET S1 == [S EXCEPT !.taskQueue = <<>>]
            S2 == [rejectAll(S1, S.taskPromises) EXCEPT !.taskPromises = {}]
            busyWorkers == {w \in DOMAIN S.workers : S.workers[w].isBusy}
        IN restartAll(S2, busyWorkers))

\* shutdown() up to its await
shutdownBegin(S) == cancelAllTasks([S EXCEPT !.shuttingDown = TRUE])

\* shutdown() after the timeout: terminate every worker, this.workers = []
shutdownEnd(S0) ==
    Then(S0, LAMBDA S :
        [S EXCEPT !.workers = <<>>,
                  !.liveUnits = @ - Cardinality({w \in DOMAIN S.workers :
                                                   S.workers[w].worker.alive})])

getNumWorkers == Len(workers)

\* ---------------------------------------------------------------- actions
\* The pool as the constructor leaves it, with n workers.
InitPoolFields(n) ==
    /\ workers = [i \in 1..n |-> NewWorkerInfo]
    /\ taskQueue = <<>>
    /\ taskPromises = {}
    /\ shuttingDown = FALSE
    /\ future = <<>>
    /\ settleCalls = <<>>
    /\ posts = <<>>
    /\ liveUnits = n
    /\ dispatches = <<>>
    /\ shutdownTimers = 0
    /\ shutdownCalls = 0

\* The pool alone: no App, no persistence layer, no vectorization module around it.
InitPool(n) ==
    /\ InitPoolFields(n)
    /\ app = <<>>
    /\ db = <<>>
    /\ vec = <<>>
    /\ ret = <<>>

Init == InitPool(PoolSize)

\* The caller submits the next task; its payload may or may not be serialisable.
AddTask ==
    /\ Submitted < MaxTasks
    /\ \E c \in BOOLEAN :
          Install(addTask(Pool, [id |-> Submitted + 1, cloneable |-> c]))
    /\ UNCHANGED <<shutdownTimers, shutdownCalls>>

\* The unit of worker w is alive and holds a task it has not reported on.
Working(w) ==
    /\ w \in DOMAIN workers
    /\ workers[w].worker.alive
    /\ workers[w].worker.inbox # <<>>

\* The task the unit of w reports on, and the pool once the unit has let go of it.
Current(w) == Head(workers[w].worker.inbox)
Reported(w) == [Pool EXCEPT !.workers[w].worker.inbox = Tail(@)]

\* The error events a worker script raises by an uncaught exception.
ErrorEvents ==
    {[type |-> "error", message |-> "Out of memory", error |-> "none"],
     [type |-> "error", message |-> "Uncaught", error |-> "TypeError"],
     [type |-> "error", message |-> "Uncaught", error |-> "Error"]}

\* self.postMessage({type: 'result', taskId}) reaches worker.onmessage
WorkerResult(w) ==
    /\ Working(w)
    /\ Install(handleWorkerMessage(Reported(w), w,
                                    [type |-> "result", taskId |-> Current(w)]))
    /\ UNCHANGED <<shutdownTimers, shutdownCalls>>

\* self.postMessage({type: 'error', taskId}) reaches worker.onmessage
WorkerErrorMessage(w) ==
    /\ Working(w)
    /\ Install(handleWorkerMessage(Reported(w), w,
                                    [type |-> "error", taskId |-> Current(w)]))
    /\ UNCHANGED <<shutdownTimers, shutdownCalls>>

\* An uncaught exception in the worker fires worker.onerror
WorkerErrorEvent(w) ==
    /\ Working(w)
    /\ \E event \in ErrorEvents : Install(onerror(Reported(w), w, event))
    /\ UNCHANGED <<shutdownTimers, shutdownCalls>>

\* A message that cannot be deserialised fires worker.onmessageerror
WorkerMessageError(w) ==
    /\ Working(w)
    /\ Install(onmessageerror(Reported(w), w))
    /\ UNCHANGED <<shutdownTimers, shutdownCalls>>

\* The outcomes a worker can report for the task it holds.
WorkerReports(w) ==
    \/ WorkerResult(w)
    \/ WorkerErrorMessage(w)
    \/ WorkerErrorEvent(w)
    \/ WorkerMessageError(w)

CancelAllTasks ==
    /\ Install(cancelAllTasks(Pool))
    /\ UNCHANGED <<shutdownTimers, shutdownCalls>>

Shutdown ==
    /\ shutdownCalls < MaxShutdownCalls
    /\ Install(shutdownBegin(Pool))
    /\ shutdownTimers' = shutdownTimers + 1
    /\ shutdownCalls' = shutdownCalls + 1

ShutdownComplete ==
    /\ shutdownTimers > 0
    /\ Install(shutdownEnd(Pool))
    /\ shutdownTimers' = shutdownTimers - 1
    /\ UNCHANGED shutdownCalls

Next ==
    \/ AddTask
    \/ \E w \in 1..PoolSize : WorkerResult(w)
    \/ \E w \in 1..PoolSize : WorkerErrorMessage(w)
    \/ \E w \in 1..PoolSize : WorkerErrorEvent(w)
    \/ \E w \in 1..PoolSize : WorkerMessageError(w)
    \/ CancelAllTasks
    \/ Shutdown
    \/ ShutdownComplete

Spec == Init /\ [][Next]_vars

\* Every live worker eventually reports an outcome for the task it holds.
FairSpec == Spec /\ \A w \in 1..PoolSize : WF_vars(WorkerReports(w))

\* ------------------------------------------------ end-to-end scenario 3
\* 20 tasks on a pool of 4 workers; the third task raises a critical worker error,
\* every other task succeeds in its worker.
ScenarioWorkers == 4
ScenarioTasks == 20
FailingTask == 3

InitScenario3 == InitPool(ScenarioWorkers)

\* The caller submits the 20 tasks in one synchronous loop, so every addTask runs
\* before the first worker event is handled.
ScenarioSubmit ==
    /\ Submitted < ScenarioTasks
    /\ Install(addTask(Pool, [id |-> Submitted + 1, cloneable |-> TRUE]))
    /\ UNCHANGED <<shutdownTimers, shutdownCalls>>

ScenarioSuccess(w) ==
    /\ Submitted = ScenarioTasks
    /\ Working(w)
    /\ Current(w) # FailingTask
    /\ Install(handleWorkerMessage(Reported(w), w,
                                    [type |-> "result", taskId |-> Current(w)]))
    /\ UNCHANGED <<shutdownTimers, shutdownCalls>>

ScenarioCriticalError(w) ==
    /\ Submitted = ScenarioTasks
    /\ Working(w)
    /\ Current(w) = FailingTask
    /\ Install(onerror(Reported(w), w,
                       [type |-> "error", message |-> "Out of memory", error |-> "none"]))
    /\ UNCHANGED <<shutdownTimers, shutdownCalls>>

NextScenario3 ==
    \/ ScenarioSubmit
    \/ \E w \in 1..ScenarioWorkers : ScenarioSuccess(w)
    \/ \E w \in 1..ScenarioWorkers : ScenarioCriticalError(w)

SpecScenario3 == InitScenario3 /\ [][NextScenario3]_vars

\* --------------------------------------- the pool of src/utils/workerPool.ts
\* The earlier WorkerPool, which the earlier App still imports: addTask, processQueue,
\* markWorkerIdle and findAvailableWorker are the same code; the handlers below differ.
handleWorkerMessageLegacy(S0, w, msg) ==
    Then(S0, LAMBDA S :
        LET t == msg.taskId
            known == t \in S.taskPromises
        IN IF t = NoTask THEN S
           ELSE IF msg.type = "result"
           THEN markWorkerIdle(deletePromise(IF known THEN resolve(S, t) ELSE S, t), w)
           ELSE IF msg.type = "error"
           THEN markWorkerIdle(
                    deletePromise(IF known THEN reject(S, t, "error") ELSE S, t), w)
           ELSE S)

\* No restart, whatever the error.
handleWorkerErrorLegacy(S0, w, error) ==
    Then(S0, LAMBDA S :
        LET taskId == S.workers[w].taskId
            known == taskId \in S.taskPromises
        IN markWorkerIdle(
               IF taskId # NoTask
               THEN deletePromise(IF known THEN reject(S, taskId, "error") ELSE S, taskId)
               ELSE S, w))

RECURSIVE terminateBusy(_, _)
\* this.workers.forEach: terminate the unit of a busy worker, reset every slot
terminateBusy(S0, ws) ==
    Then(S0, LAMBDA S :
        IF ws = {} THEN S
        ELSE LET w == MinOf(ws)
                 old == S.workers[w].worker
                 busy == S.workers[w].isBusy
             IN terminateBusy(
                    [S EXCEPT !.workers[w].worker = IF busy THEN terminate(old) ELSE old,
                              !.workers[w].isBusy = FALSE,
                              !.workers[w].taskId = NoTask,
                              !.liveUnits = @ - (IF busy /\ old.alive THEN 1 ELSE 0)],
                    ws \ {w}))

cancelAllTasksLegacy(S0) ==
    Then(S0, LAMBDA S :
        LET S1 == [S EXCEPT !.taskQueue = <<>>]
            S2 == [rejectAll(S1, S.taskPromises) EXCEPT !.taskPromises = {}]
        IN terminateBusy(S2, DOMAIN S.workers))

shutdownBeginLegacy(S) == cancelAllTasksLegacy([S EXCEPT !.shuttingDown = TRUE])

LegacyWorkerResult(w) ==
    /\ Working(w)
    /\ Install(handleWorkerMessageLegacy(Reported(w), w,
                                          [type |-> "result", taskId |-> Current(w)]))
    /\ UNCHANGED <<shutdownTimers, shutdownCalls>>

LegacyWorkerErrorMessage(w) ==
    /\ Working(w)
    /\ Install(handleWorkerMessageLegacy(Reported(w), w,
                                          [type |-> "error", taskId |-> Current(w)]))
    /\ UNCHANGED <<shutdownTimers, shutdownCalls>>

\* worker.onerror and worker.onmessageerror
LegacyWorkerErrorEvent(w) ==
    /\ Working(w)
    /\ \E event \in ErrorEvents : Install(handleWorkerErrorLegacy(Reported(w), w, event))
    /\ UNCHANGED <<shutdownTimers, shutdownCalls>>

LegacyCancelAllTasks ==
    /\ Install(cancelAllTasksLegacy(Pool))
    /\ UNCHANGED <<shutdownTimers, shutdownCalls>>

LegacyShutdown ==
    /\ shutdownCalls < MaxShutdownCalls
    /\ Install(shutdownBeginLegacy(Pool))
    /\ shutdownTimers' = shutdownTimers + 1
    /\ shutdownCalls' = shutdownCalls + 1

NextLegacy ==
    \/ AddTask
    \/ \E w \in 1..PoolSize : LegacyWorkerResult(w)
    \/ \E w \in 1..PoolSize : LegacyWorkerErrorMessage(w)
    \/ \E w \in 1..PoolSize : LegacyWorkerErrorEvent(w)
    \/ LegacyCancelAllTasks
    \/ LegacyShutdown
    \/ ShutdownComplete

SpecLegacy == Init /\ [][NextLegacy]_vars

\* ------------------------------------------------- the App's comparison runs
\* Part 2: compareUrls of the App (the later App with its main-thread fallback), on
\* top of the pool above. The source URLs are 1..NumSources; the task of the k-th
\* submission is task k of the pool, since only the App submits.
\*
\* What a scoring task returns (the number of matches, or a failure) depends on the
\* documents and is an input here; Part 3 models the scoring itself. The completion
\* handler of a task awaits the persistence layer between its writes; the writes of
\* two handlers touch different sources, so a handler is one step.
NumSources == 2          \* source URLs loaded in the App
RunWorkers == 1          \* workers of the App's pool
MaxRuns == 2             \* compareUrls runs in a behaviour
MaxMatches == 1          \* matches in one result (the code keeps at most 5)

Sources == 1..NumSources
MaxOf(I) == CHOOSE i \in I : \A j \in I : j <= i

\* The rows of source_url_processing_status and similarity_results for the target
\* list of the run, and the writes made for each source since the run began.
InitDb ==
    [processed |-> {}, stored |-> [s \in Sources |-> {}], writes |-> [s \in Sources |-> <<>>]]

\* pool is whether workerPoolRef.current is set (the test task passed).
InitApp(pool) ==
    [workerPool |-> pool, isProcessing |-> FALSE, abortController |-> "null", run |-> 0,
     urlsToProcess |-> <<>>, sourceOf |-> <<>>, runOf |-> <<>>, inlinePromise |-> <<>>, scored |-> <<>>,
     handled |-> <<>>, results |-> <<>>, tasksCompleted |-> 0, settled |-> {}]

AppTasks == DOMAIN app.sourceOf
TasksOfRun(r) == {t \in AppTasks : app.runOf[t] = r}

\* The state of the promise compareUrls holds for task t.
TaskPromise(t) == IF app.workerPool THEN future[t] ELSE app.inlinePromise[t]

\* upsert into source_url_processing_status
markSourceUrlProcessed(D, s) ==
    [D EXCEPT !.processed = @ \cup {s}, !.writes[s] = Append(@, "mark")]

\* delete from source_url_processing_status
clearSourceUrlProcessingStatus(D, s) ==
    [D EXCEPT !.processed = @ \ {s}, !.writes[s] = Append(@, "clear")]

\* upsert into similarity_results of match m of source s
storeSimilarityResult(D, s, m) ==
    [D EXCEPT !.stored[s] = @ \cup {m}, !.writes[s] = Append(@, "store")]

RECURSIVE storeMatches(_, _, _)
\* for (const match of response.result.matches): the first k matches are stored
storeMatches(D, s, k) ==
    IF k = 0 THEN D ELSE storeSimilarityResult(storeMatches(D, s, k - 1), s, k)

\* The try block of the completion handler: look the source up, store the matches,
\* mark the source. found: the source has a row in urls; k: the matches stored before
\* a write failed or whose target has a row in urls; marks: the block reached
\* markSourceUrlProcessed and it succeeded.
persistResult(D, s, found, k, marks) ==
    IF ~found THEN D
    ELSE IF marks THEN markSourceUrlProcessed(storeMatches(D, s, k), s)
    ELSE storeMatches(D, s, k)

\* Mutant of SimilarityResult: shouldMarkProcessed is set whatever was found.
SimilarityResultMarked(n) == [matches |-> n, shouldMarkProcessed |-> TRUE]

\* The result object a successful scoring of n matches produces.
SimilarityResult(n) == [matches |-> n, shouldMarkProcessed |-> n > 0]

\* processUrlInMainThread: throws is an exception anywhere in its try block, which
\* its catch turns into an empty result; markOK is whether the write succeeds.
processUrlInMainThread(D, s, throws, n, markOK) ==
    IF throws
    THEN [result |-> [matches |-> 0, shouldMarkProcessed |-> FALSE], db |-> D]
    ELSE [result |-> SimilarityResult(n),
          db |-> IF SimilarityResult(n).shouldMarkProcessed /\ markOK
                 THEN markSourceUrlProcessed(D, s) ELSE D]

RECURSIVE submitAll(_, _)
\* processedSources.forEach(... workerPoolRef.current.addTask(taskData) ...)
submitAll(S0, n) ==
    Then(S0, LAMBDA S :
        IF n = 0 THEN S
        ELSE submitAll(addTask(S, [id |-> Len(S.future) + 1, cloneable |-> TRUE]), n - 1))

\* The sources of the set I in the order of the input list.
RECURSIVE InOrder(_)
InOrder(I) == IF I = {} THEN <<>> ELSE <<MinOf(I)>> \o InOrder(I \ {MinOf(I)})

\* compareUrls, from the isProcessing test to the end of the submission loop.
\* readOK: getProcessedSourceUrls got its batch (a failed batch is skipped, so no
\* source counts as processed); clearOK: clearSourceUrlProcessingStatus succeeded.
\* clears is whether this version of the App clears the status of processed sources
\* that have no cached result.  preprocessed: the sources whose preprocessUrl call
\* succeeded within its retries; processBatchInParallel leaves the others out of
\* processedSources, and forEach passes over the holes.
compareUrls(clears) ==
    /\ ~app.isProcessing
    /\ app.run < MaxRuns
    /\ \E readOK \in BOOLEAN, clearOK \in BOOLEAN, preprocessed \in SUBSET Sources :
          LET seen == IF readOK THEN db.processed ELSE {}
              selected == Sources \ seen
              urlsToProcess == InOrder(selected \cap preprocessed)
              cached == {s \in seen : db.stored[s] # {}}
              urlsWithNoResults == seen \ cached
              initialResults ==
                  [i \in 1..Cardinality(cached) |->
                      [sourceUrl |-> InOrder(cached)[i],
                       matches |-> Cardinality(db.stored[InOrder(cached)[i]])]]
              n == Len(urlsToProcess)
              first == Len(app.sourceOf)
          IN /\ db' = [db EXCEPT
                          !.processed = IF clears /\ clearOK
                                        THEN @ \ urlsWithNoResults ELSE @,
                          !.writes = [s \in Sources |->
                                         IF clears /\ clearOK /\ s \in urlsWithNoResults
                                         THEN <<"clear">> ELSE <<>>]]
             /\ app' = [app EXCEPT
                          !.run = @ + 1,
                          !.urlsToProcess = InOrder(selected),
                          !.isProcessing = (n > 0),
                          !.abortController = IF n > 0 THEN "live" ELSE @,
                          !.results = initialResults,
                          !.tasksCompleted = 0,
                          !.sourceOf = @ \o urlsToProcess,
                          !.runOf = @ \o [i \in 1..n |-> app.run + 1],
                          !.inlinePromise = @ \o [i \in 1..n |-> "pending"],
                          !.scored = @ \o [i \in 1..n |-> SimilarityResult(0)],
                          !.handled = @ \o [i \in 1..n |-> "no"]]
             /\ IF app.workerPool
                THEN InstallPool(submitAll(Pool, n))
                ELSE UNCHANGED <<workers, taskQueue, taskPromises, shuttingDown, future,
                                 settleCalls, posts, liveUnits, dispatches>>
    /\ UNCHANGED <<shutdownTimers, shutdownCalls, vec, ret>>

CompareUrls == compareUrls(TRUE)

\* The fallback path: processUrlInMainThread of task t returns.
InlineTask(t) ==
    /\ t \in AppTasks
    /\ ~app.workerPool
    /\ app.inlinePromise[t] = "pending"
    /\ \E throws \in BOOLEAN, n \in 0..MaxMatches, markOK \in BOOLEAN :
          LET r == processUrlInMainThread(db, app.sourceOf[t], throws, n, markOK) IN
          /\ db' = r.db
          /\ app' = [app EXCEPT !.inlinePromise[t] = "resolved", !.scored[t] = r.result]
    /\ UNCHANGED <<poolVars, vec, ret>>

\* The responses the promise of task t can resolve with: what the worker posted
\* (any number of matches, shouldMarkProcessed as the worker sets it), or what
\* processUrlInMainThread returned.
Responses(t) ==
    IF app.workerPool THEN {SimilarityResult(n) : n \in 0..MaxMatches}
    ELSE {app.scored[t]}

\* taskPromise.then(async response => ...): the result goes to the result list,
\* then the matches are stored and the source is marked, errors being logged.
TaskCompletion(t) ==
    /\ t \in AppTasks
    /\ TaskPromise(t) = "resolved"
    /\ app.handled[t] = "no"
    /\ \E result \in Responses(t), found \in BOOLEAN, k \in 0..MaxMatches,
          marks \in BOOLEAN :
          /\ k <= result.matches
          /\ app' = [app EXCEPT
                       !.handled[t] = "delivered",
                       !.scored[t] = result,
                       !.results = Append(@, [sourceUrl |-> app.sourceOf[t],
                                              matches |-> result.matches]),
                       !.tasksCompleted = @ + 1]
          /\ db' = IF result.matches > 0 /\ result.shouldMarkProcessed
                   THEN persistResult(db, app.sourceOf[t], found, k, marks)
                   ELSE db
    /\ UNCHANGED <<poolVars, vec, ret>>

\* .catch(error => ...): the failure is logged and counted.
TaskFailure(t) ==
    /\ t \in AppTasks
    /\ TaskPromise(t) \in {"error", "cancelled", "shuttingDown"}
    /\ app.handled[t] = "no"
    /\ app' = [app EXCEPT !.handled[t] = "failed", !.tasksCompleted = @ + 1]
    /\ UNCHANGED <<poolVars, db, vec, ret>>

\* Promise.allSettled(taskPromises).then(...) of run r
AllSettled(r) ==
    /\ r \in 1..app.run
    /\ r \notin app.settled
    /\ TasksOfRun(r) # {}
    /\ \A t \in TasksOfRun(r) : TaskPromise(t) # "pending"
    /\ app' = [app EXCEPT !.isProcessing = FALSE, !.abortController = "null",
                          !.settled = @ \cup {r}]
    /\ UNCHANGED <<poolVars, db, vec, ret>>

HandleCancelProcessing ==
    /\ app.abortController # "null"
    /\ app' = [app EXCEPT !.abortController = "aborted", !.isProcessing = FALSE]
    /\ IF app.workerPool
       THEN InstallPool(cancelAllTasks(Pool))
       ELSE UNCHANGED <<workers, taskQueue, taskPromises, shuttingDown, future,
                        settleCalls, posts, liveUnits, dispatches>>
    /\ UNCHANGED <<shutdownTimers, shutdownCalls, db, vec, ret>>

MaxAppTasks == NumSources * MaxRuns

InitRun ==
    /\ InitPoolFields(RunWorkers)
    /\ app \in {InitApp(pool) : pool \in BOOLEAN}
    /\ db = InitDb
    /\ vec = <<>>
    /\ ret = <<>>

NextRun ==
    \/ CompareUrls
    \/ \E t \in 1..MaxAppTasks : InlineTask(t)
    \/ \E w \in 1..PoolSize : WorkerResult(w)
    \/ \E w \in 1..PoolSize : WorkerErrorMessage(w)
    \/ \E w \in 1..PoolSize : WorkerErrorEvent(w)
    \/ \E w \in 1..PoolSize : WorkerMessageError(w)
    \/ \E t \in 1..MaxAppTasks : TaskCompletion(t)
    \/ \E t \in 1..MaxAppTasks : TaskFailure(t)
    \/ \E r \in 1..MaxRuns : AllSettled(r)
    \/ HandleCancelProcessing

SpecRun == InitRun /\ [][NextRun]_vars

\* ------------------------------------- the earlier App and similarity.worker
\* The App of src/App.tsx: always a pool (the one of src/utils/workerPool.ts), no
\* main-thread fallback, no persistence in the completion handler. Its worker script,
\* similarity.worker, marks the source itself before it posts the result.

\* self.onmessage of similarity.worker for the task the unit of w holds, and the
\* delivery of the message it posts. throws: an exception before the matches are
\* known; n: the matches found; markOK: markSourceUrlProcessed succeeded. app.scored
\* records what the worker computed.
LegacyWorkerScores(w) ==
    /\ Working(w)
    /\ Current(w) \in AppTasks
    /\ \E throws \in BOOLEAN, n \in 0..MaxMatches, markOK \in BOOLEAN :
          LET t == Current(w)
              s == app.sourceOf[t]
              marked == ~throws /\ n > 0 /\ markOK
              failed == throws \/ (n > 0 /\ ~markOK)
          IN /\ db' = IF marked THEN markSourceUrlProcessed(db, s) ELSE db
             /\ app' = [app EXCEPT !.scored[t] =
                                       IF throws THEN @ ELSE SimilarityResult(n)]
             /\ InstallPool(handleWorkerMessageLegacy(
                                Reported(w), w,
                                [type |-> IF failed THEN "error" ELSE "result",
                                 taskId |-> t]))
    /\ UNCHANGED <<shutdownTimers, shutdownCalls, vec, ret>>

LegacyCompareUrls == compareUrls(FALSE)

\* taskPromise.then(response => ...): a null result (no match) is only logged.
LegacyTaskCompletion(t) ==
    /\ t \in AppTasks
    /\ TaskPromise(t) = "resolved"
    /\ app.handled[t] = "no"
    /\ app' = [app EXCEPT
                 !.handled[t] = "delivered",
                 !.results = IF app.scored[t].matches > 0
                             THEN Append(@, [sourceUrl |-> app.sourceOf[t],
                                             matches |-> app.scored[t].matches])
                             ELSE @,
                 !.tasksCompleted = @ + 1]
    /\ UNCHANGED <<poolVars, db, vec, ret>>

LegacyHandleCancelProcessing ==
    /\ app.abortController # "null"
    /\ app' = [app EXCEPT !.abortController = "aborted", !.isProcessing = FALSE]
    /\ InstallPool(cancelAllTasksLegacy(Pool))
    /\ UNCHANGED <<shutdownTimers, shutdownCalls, db, vec, ret>>

InitRunLegacy ==
    /\ InitPoolFields(RunWorkers)
    /\ app = InitApp(TRUE)
    /\ db = InitDb
    /\ vec = <<>>
    /\ ret = <<>>

NextRunLegacy ==
    \/ LegacyCompareUrls
    \/ \E w \in 1..PoolSize : LegacyWorkerScores(w)
    \/ \E w \in 1..PoolSize : LegacyWorkerErrorEvent(w)
    \/ \E t \in 1..MaxAppTasks : LegacyTaskCompletion(t)
    \/ \E t \in 1..MaxAppTasks : TaskFailure(t)
    \/ \E r \in 1..MaxRuns : AllSettled(r)
    \/ LegacyHandleCancelProcessing

SpecRunLegacy == InitRunLegacy /\ [][NextRunLegacy]_vars

\* -------------------------------------- workers/modules/vectorization (TF-IDF)
\* Part 3: the module-level caches of workers/modules/vectorization and its exported
\* functions. A term is a number (the rank of the string in sort order), a document
\* a sequence of terms, a corpus a sequence of documents; the cache key
\* doc.join('|') is the document itself.
\*
\* A Float64Array the module returns is either all zero or L2-normalised. It is kept
\* here as integer weights w, the array being w / |w| (or zero when w is zero), so
\* that a cosine can be compared with the threshold exactly. The weight of a term is
\* its count in the document times its IDF in thousandths (the factor 1/docLength of
\* the term frequency is common to the whole vector and cancels). Positions start at
\* 1 instead of 0. cachedUniqueTerms = null is the empty sequence: getTermIndices,
\* its only reader, treats the two alike.
NumTerms == 2            \* distinct terms in the documents
MaxDocLen == 2           \* terms in a document
MaxDocs == 2             \* documents in a corpus
MaxCalls == 3            \* calls of the module's functions in a behaviour

Terms == 1..NumTerms
SeqsUpTo(S, n) == UNION {[1..k -> S] : k \in 0..n}
Docs == SeqsUpTo(Terms, MaxDocLen)
Corpora == SeqsUpTo(Docs, MaxDocs)

EmptyMap == [x \in {} |-> 0]

\* 1000 * ln(i) for i = 1, 2, ..., rounded.
LnMilli == <<0, 693, 1099, 1386, 1609, 1792>>

\* Math.log((numDocs + 1) / (df + 1)) + 1, in thousandths
SmoothedIdf(numDocs, df) == LnMilli[numDocs + 1] - LnMilli[df + 1] + 1000

\* The module as it is after import. corpus is the corpus the vocabulary in force was
\* built from (hasCorpus: there is one); calls counts the calls made.
InitVec ==
    [vectorCache |-> EmptyMap, termIndexCache |-> EmptyMap, cachedUniqueTerms |-> <<>>,
     cachedIdfValues |-> EmptyMap, cachedAllDocsHash |-> <<>>,
     hasCorpus |-> FALSE, corpus |-> <<>>, calls |-> 0]

\* The vocabulary and IDF table in force, by which a vector is tagged when computed.
Table(V) == [terms |-> V.cachedUniqueTerms, idf |-> V.cachedIdfValues]

Put(m, k, v) == [x \in DOMAIN m \cup {k} |-> IF x = k THEN v ELSE m[x]]

\* Array.from(set).sort(), the terms being numbered in sort order
RECURSIVE Sorted(_)
Sorted(I) == IF I = {} THEN <<>> ELSE <<MinOf(I)>> \o Sorted(I \ {MinOf(I)})

Count(doc, term) == Cardinality({i \in DOMAIN doc : doc[i] = term})
TermsOf(doc) == {doc[i] : i \in DOMAIN doc}

Returns(V, value) == [vec |-> V, threw |-> FALSE, value |-> value]
Throws(V) == [vec |-> V, threw |-> TRUE, value |-> <<>>]

clearVectorCache(V, fullClear) ==
    IF fullClear
    THEN [V EXCEPT !.vectorCache = EmptyMap, !.termIndexCache = EmptyMap,
                   !.cachedUniqueTerms = <<>>, !.cachedIdfValues = EmptyMap,
                   !.cachedAllDocsHash = <<>>, !.hasCorpus = FALSE, !.corpus = <<>>]
    ELSE [V EXCEPT !.vectorCache = EmptyMap]

\* String(allDocs.length) + '|' + (allDocs[0]?.length || 0): the two numbers
CorpusHash(allDocs) ==
    <<Len(allDocs), IF allDocs = <<>> THEN 0 ELSE Len(allDocs[1])>>

\* The map returned is the module's own cachedIdfValues object. vectorCache is not
\* touched.
precomputeIDF(V, allDocs) ==
    IF allDocs = <<>> THEN Throws(V)
    ELSE LET uniqueTerms == UNION {TermsOf(allDocs[i]) : i \in DOMAIN allDocs}
             terms == Sorted(uniqueTerms)
             df(term) == Cardinality({i \in DOMAIN allDocs : term \in TermsOf(allDocs[i])})
             idf == [term \in uniqueTerms |-> SmoothedIdf(Len(allDocs), df(term))]
         IN Returns([V EXCEPT !.cachedUniqueTerms = terms,
                              !.termIndexCache = [term \in uniqueTerms |->
                                  CHOOSE i \in DOMAIN terms : terms[i] = term],
                              !.cachedIdfValues = idf,
                              !.cachedAllDocsHash = CorpusHash(allDocs),
                              !.hasCorpus = TRUE, !.corpus = allDocs],
                    idf)

\* getTermIndices throws
NoTermIndices(V) == V.cachedUniqueTerms = <<>> \/ DOMAIN V.termIndexCache = {}

\* The vector of doc over the vocabulary of V; withIdf is whether idfValues is
\* defined (idfValues?.get(term) || 0 otherwise gives 0 for every term).
TfIdfVector(V, doc, withIdf) ==
    [table |-> Table(V),
     weights |-> [i \in DOMAIN V.cachedUniqueTerms |->
                     LET term == V.cachedUniqueTerms[i] IN
                     IF withIdf /\ term \in DOMAIN V.cachedIdfValues
                     THEN Count(doc, term) * V.cachedIdfValues[term]
                     ELSE 0]]

\* calculateTFIDF(doc, allDocs?, precomputedIDF?): hasAllDocs and hasIdf say which
\* optional arguments are given, precomputedIDF being the map precomputeIDF returned.
calculateTFIDF(V, doc, hasAllDocs, allDocs, hasIdf) ==
    IF doc \in DOMAIN V.vectorCache
    THEN Returns(V, V.vectorCache[doc])
    ELSE IF NoTermIndices(V)
    THEN IF ~hasAllDocs THEN Throws(V)
         ELSE LET pre == precomputeIDF(V, allDocs) IN
              IF pre.threw \/ NoTermIndices(pre.vec) THEN Throws(pre.vec)
              ELSE LET vector == TfIdfVector(pre.vec, doc, TRUE) IN
                   Returns([pre.vec EXCEPT !.vectorCache = Put(@, doc, vector)], vector)
    ELSE LET vector == TfIdfVector(V, doc, hasIdf) IN
         Returns([V EXCEPT !.vectorCache = Put(@, doc, vector)], vector)

checkCorpusChanged(V, allDocs) == CorpusHash(allDocs) # V.cachedAllDocsHash

\* The calls, in any order, that a client of the module can make.
Called(r, op, arg) ==
    /\ vec.calls < MaxCalls
    /\ vec' = [r.vec EXCEPT !.calls = @ + 1]
    /\ ret' = [op |-> op, arg |-> arg, threw |-> r.threw, value |-> r.value]
    /\ UNCHANGED <<poolVars, app, db>>

PrecomputeIDF ==
    \E allDocs \in Corpora : Called(precomputeIDF(vec, allDocs), "precomputeIDF", allDocs)

CalculateTFIDF ==
    \E doc \in Docs, hasAllDocs \in BOOLEAN, hasIdf \in BOOLEAN :
        \E allDocs \in IF hasAllDocs THEN {<<doc>>, <<>>} ELSE {<<>>} :
            Called(calculateTFIDF(vec, doc, hasAllDocs, allDocs, hasIdf),
                   "calculateTFIDF", doc)

ClearVectorCache ==
    \E fullClear \in BOOLEAN :
        Called(Returns(clearVectorCache(vec, fullClear), <<>>), "clearVectorCache", <<>>)

CheckCorpusChanged ==
    \E allDocs \in Corpora :
        Called(Returns(vec, checkCorpusChanged(vec, allDocs)), "checkCorpusChanged",
               allDocs)

InitVecSpec ==
    /\ InitPoolFields(PoolSize)
    /\ app = <<>>
    /\ db = <<>>
    /\ vec = InitVec
    /\ ret = [op |-> "none", arg |-> <<>>, threw |-> FALSE, value |-> <<>>]

NextVec ==
    \/ PrecomputeIDF
    \/ CalculateTFIDF
    \/ ClearVectorCache
    \/ CheckCorpusChanged

SpecVec == InitVecSpec /\ [][NextVec]_vars

\* ------------------------------------------------- scoring a source document
\* Part 4: candidateProcessor.processCandidates, batchCosineSimilarity, and the two
\* places that score a source document against the precomputed target data: the
\* message handler of dynamic.worker and App.processUrlInMainThread. The main
\* thread and a worker each have their own instance of the vectorization module:
\* vec is the main thread's, app.workerModule the worker's.
MaxWeight == 1           \* largest weight in a vector handed to the batch functions
MaxSteps == 4            \* handler runs in a behaviour of the scoring runs

\* SIMILARITY_THRESHOLD = 0.05 = 1 / 20
ThresholdInverse == 20
\* .slice(0, 5) of the sorted matches
TopMatches == 5

\* A row of an uploaded CSV file, [url, title, body], and the document
\* preprocessUrl makes of it: the body's terms.
Row(doc) == <<"url", "title", doc>>
preprocessUrl(row) == row[3]

Dim(v) == Len(v.weights)

RECURSIVE SumOver(_)
SumOver(q) == IF q = <<>> THEN 0 ELSE q[1] + SumOver(Tail(q))

Dot(a, b) == SumOver([i \in DOMAIN a.weights |-> a.weights[i] * b.weights[i]])
NormSq(a) == Dot(a, a)

\* A cosine, kept as num / sqrt(densq).
Zero == [num |-> 0, densq |-> 1]
AtLeastThreshold(c) == c.num > 0 /\ ThresholdInverse * ThresholdInverse * c.num * c.num >= c.densq
Greater(c, d) == c.num * c.num * d.densq > d.num * d.num * c.densq

\* batchCosineSimilarity: a target vector of another dimension is scored 0.
batchCosineSimilarity(sourceVec, targetVecs) ==
    Returns(InitVec,
            [v \in DOMAIN targetVecs |->
                IF Dim(targetVecs[v]) # Dim(sourceVec) THEN Zero
                ELSE IF NormSq(sourceVec) * NormSq(targetVecs[v]) = 0 THEN Zero
                ELSE [num |-> Dot(sourceVec, targetVecs[v]),
                      densq |-> NormSq(sourceVec) * NormSq(targetVecs[v])]])

\* processCandidates: the matches at or above the threshold, as the set of
\* (target, similarity); an empty source vector or a target vector of another
\* dimension gives the empty list.
processCandidates(sourceVector, candidateTargetVectors) ==
    IF Dim(sourceVector) = 0 THEN Returns(InitVec, {})
    ELSE IF \E i \in DOMAIN candidateTargetVectors :
                Dim(candidateTargetVectors[i]) # Dim(sourceVector)
    THEN Returns(InitVec, {})
    ELSE LET similarities == batchCosineSimilarity(sourceVector, candidateTargetVectors).value IN
         Returns(InitVec, {[target |-> i, similarity |-> similarities[i]] :
                              i \in {j \in DOMAIN candidateTargetVectors :
                                        AtLeastThreshold(similarities[j])}})

RECURSIVE sortMatches(_)
\* .sort((a, b) => b.similarity - a.similarity), a stable sort of the list that
\* processCandidates built in target order
sortMatches(M) ==
    IF M = {} THEN <<>>
    ELSE LET best == CHOOSE m \in M : \A o \in M \ {m} :
                         \/ Greater(m.similarity, o.similarity)
                         \/ ~Greater(o.similarity, m.similarity) /\ m.target < o.target
         IN <<best.target>> \o sortMatches(M \ {best})

\* What dynamic.worker's handler and processUrlInMainThread both do with module
\* instance V: the source vector, the candidates, the best matches. threw is an
\* exception in these steps.
scoreSource(V, doc, data) ==
    LET sv == calculateTFIDF(V, doc, FALSE, <<>>, FALSE) IN
    IF sv.threw \/ Dim(sv.value) = 0 THEN [vec |-> sv.vec, threw |-> TRUE, matches |-> <<>>]
    ELSE LET results == processCandidates(sv.value, data.targetVectors)
             sorted == sortMatches(results.value)
         IN [vec |-> sv.vec, threw |-> results.threw,
             matches |-> SubSeq(sorted, 1, IF Len(sorted) < TopMatches THEN Len(sorted)
                                           ELSE TopMatches)]

\* What the App sees of one scoring, every database write succeeding: the promise
\* resolved (delivered) or rejected (failed), the result, and the writes made for
\* the source.
Outcome(status, matches, result, D) ==
    [status |-> status, matches |-> matches,
     shouldMarkProcessed |-> result.shouldMarkProcessed, writes |-> D.writes[1]]

\* The completion handler's writes for a delivered result
HandlerWrites(D, result) ==
    IF result.matches > 0 /\ result.shouldMarkProcessed
    THEN persistResult(D, 1, TRUE, result.matches, TRUE)
    ELSE D

\* The source goes through processUrlInMainThread, whose promise always resolves.
InlineOutcome(sc) ==
    LET r == processUrlInMainThread(InitDb, 1, sc.threw, Len(sc.matches), TRUE) IN
    Outcome("delivered", IF sc.threw THEN <<>> ELSE sc.matches, r.result,
            HandlerWrites(r.db, r.result))

\* The source goes to a worker: an exception is posted as an error message, on
\* which the pool rejects the task.
PoolOutcome(sc) ==
    IF sc.threw
    THEN Outcome("failed", <<>>, [shouldMarkProcessed |-> FALSE], InitDb)
    ELSE Outcome("delivered", sc.matches, SimilarityResult(Len(sc.matches)),
                 HandlerWrites(InitDb, SimilarityResult(Len(sc.matches))))

\* The App of the scoring runs: the uploaded target rows, precomputedDataRef (set:
\* not null), and the worker's instance of the vectorization module.
NoData == [set |-> FALSE, processedTargets |-> <<>>, targetVectors |-> <<>>]
InitScoreApp == [targetUrls |-> <<>>, precomputedData |-> NoData, workerModule |-> InitVec]

Counted(V) == [V EXCEPT !.calls = @ + 1]

HandleTargetUpload ==
    /\ vec.calls < MaxSteps
    /\ \E docs \in Corpora :
          app' = [app EXCEPT !.targetUrls = [i \in DOMAIN docs |-> Row(docs[i])],
                             !.precomputedData = NoData]
    /\ vec' = Counted(clearVectorCache(vec, TRUE))
    /\ ret' = [op |-> "handleTargetUpload", arg |-> <<>>, threw |-> FALSE, value |-> <<>>]
    /\ UNCHANGED <<poolVars, db>>

RECURSIVE targetVectorsOf(_, _, _)
\* for (i ...) targetVectors[i] = await calculateTFIDF(processedTargets[i].doc):
\* the module after the first n calls and the vectors they returned
targetVectorsOf(V, docs, n) ==
    IF n = 0 THEN [vec |-> V, threw |-> FALSE, vectors |-> <<>>]
    ELSE LET before == targetVectorsOf(V, docs, n - 1)
             r == calculateTFIDF(before.vec, docs[n], FALSE, <<>>, FALSE)
         IN IF before.threw \/ r.threw THEN [vec |-> r.vec, threw |-> TRUE, vectors |-> <<>>]
            ELSE [vec |-> r.vec, threw |-> FALSE, vectors |-> Append(before.vectors, r.value)]

PrecomputeTargetData ==
    /\ vec.calls < MaxSteps
    /\ app.targetUrls # <<>>
    /\ LET docs == [i \in DOMAIN app.targetUrls |-> preprocessUrl(app.targetUrls[i])]
           idf == precomputeIDF(vec, docs)
           vectors == targetVectorsOf(idf.vec, docs, Len(docs))
           reused == app.precomputedData.set /\ ~checkCorpusChanged(vec, app.targetUrls)
           failed == idf.threw \/ NoTermIndices(idf.vec) \/ vectors.threw
       IN /\ vec' = Counted(IF reused THEN vec
                            ELSE IF idf.threw \/ NoTermIndices(idf.vec) THEN idf.vec
                            ELSE vectors.vec)
          /\ app' = IF reused \/ failed THEN app
                    ELSE [app EXCEPT !.precomputedData =
                             [set |-> TRUE, processedTargets |-> docs,
                              targetVectors |-> vectors.vectors]]
          /\ ret' = [op |-> "precomputeTargetData", arg |-> <<>>, threw |-> FALSE,
                     value |-> reused \/ ~failed]
    /\ UNCHANGED <<poolVars, db>>

\* One source document is scored against the precomputed data, by a worker and by
\* the main thread.
ScoreSource ==
    /\ vec.calls < MaxSteps
    /\ app.precomputedData.set
    /\ \E doc \in Docs :
          LET inline == scoreSource(vec, doc, app.precomputedData)
              worker == scoreSource(app.workerModule, doc, app.precomputedData)
          IN /\ vec' = Counted(inline.vec)
             /\ app' = [app EXCEPT !.workerModule = worker.vec]
             /\ ret' = [op |-> "score", arg |-> doc, threw |-> FALSE,
                        value |-> [inline |-> InlineOutcome(inline),
                                   pool |-> PoolOutcome(worker)]]
    /\ UNCHANGED <<poolVars, db>>

\* The vectors handed to the batch functions: any weights of any dimension.
Vectors ==
    {[table |-> Table(InitVec), weights |-> w] : w \in SeqsUpTo(0..MaxWeight, NumTerms)}

InitScore ==
    /\ InitPoolFields(PoolSize)
    /\ app = InitScoreApp
    /\ db = InitDb
    /\ vec = InitVec
    /\ ret = [op |-> "none", arg |-> <<>>, threw |-> FALSE, value |-> <<>>]

NextScore ==
    \/ HandleTargetUpload
    \/ PrecomputeTargetData
    \/ ScoreSource

SpecScore == InitScore /\ [][NextScore]_vars


\* The batch functions applied to vectors of any dimensions: ret.arg is the input,
\* drawn at the start, and a function is applied once.
Batch(op, r) ==
    /\ ret.op = "none"
    /\ ret' = [ret EXCEPT !.op = op, !.threw = r.threw, !.value = r.value]
    /\ UNCHANGED <<poolVars, app, db, vec>>

ProcessCandidates ==
    Batch("processCandidates", processCandidates(ret.arg.sourceVector, ret.arg.targetVectors))

BatchCosineSimilarity ==
    Batch("batchCosineSimilarity",
          batchCosineSimilarity(ret.arg.sourceVector, ret.arg.targetVectors))

InitBatch ==
    /\ InitPoolFields(PoolSize)
    /\ app = <<>>
    /\ db = <<>>
    /\ vec = InitVec
    /\ ret \in {[op |-> "none", arg |-> [sourceVector |-> sv, targetVectors |-> tv],
                 threw |-> FALSE, value |-> <<>>] :
                    sv \in Vectors, tv \in SeqsUpTo(Vectors, MaxDocs)}

NextBatch ==
    \/ ProcessCandidates
    \/ BatchCosineSimilarity

SpecBatch == InitBatch /\ [][NextBatch]_vars

\* ------------------------------------------- pure functions applied to an input
\* The specifications below check a function on its own: ret.arg is the input, drawn
\* at the start, and Batch applies a function to it once.
InitArgs(Args) ==
    /\ InitPoolFields(PoolSize)
    /\ app = <<>>
    /\ db = <<>>
    /\ vec = InitVec
    /\ ret \in {[op |-> "none", arg |-> a, threw |-> FALSE, value |-> <<>>] : a \in Args}

\* ------------------------------------- parallelProcessor.processCandidates
\* The part of parallelProcessor.processCandidates that follows
\* batchCosineSimilarity: from the similarities of the candidates to the matches
\* returned (as candidate numbers). A similarity is kept in hundredths.
MaxCandidates == 6       \* candidates handed to processCandidates

\* SIMILARITY_THRESHOLD = 0.01
ParallelThreshold == 1
\* options.earlyTerminationThreshold || 0.8
EarlyTermination == 80
\* similarity < 0.9
NearCertain == 90
MAX_MATCHES == 5

\* The similarities a candidate can have: below the threshold, above it, high
\* quality, and 0.9 or more.
Similarities == {0, 50, 85, 95}

Without(q, p) == [i \in 1..(Len(q) - 1) |-> IF i < p THEN q[i] ELSE q[i + 1]]

RECURSIVE sortDescending(_, _)
\* .sort((a, b) => key[b] - key[a]) of a list q of candidate numbers: a stable sort
sortDescending(q, key) ==
    IF q = <<>> THEN <<>>
    ELSE LET p == MinOf({i \in DOMAIN q : \A j \in DOMAIN q : key[q[j]] <= key[q[i]]})
         IN <<q[p]>> \o sortDescending(Without(q, p), key)

RECURSIVE matchLoop(_, _, _, _, _, _)
\* for (const i of sortedIndices): k is the position reached, processedCount and
\* highQualityMatches the counters, allMatches the matches pushed so far.
matchLoop(similarities, sortedIndices, maxCandidates, k, highQualityMatches, allMatches) ==
    IF k > Len(sortedIndices) \/ k - 1 >= maxCandidates THEN allMatches
    ELSE LET similarity == similarities[sortedIndices[k]]
             high == IF similarity >= EarlyTermination THEN highQualityMatches + 1
                     ELSE highQualityMatches
         IN IF similarity >= EarlyTermination /\ high >= MAX_MATCHES
                                              /\ similarity < NearCertain
            THEN allMatches
            ELSE matchLoop(similarities, sortedIndices, maxCandidates, k + 1, high,
                           IF similarity >= ParallelThreshold
                           THEN Append(allMatches, sortedIndices[k]) ELSE allMatches)

\* slice(0, n)
Slice(q, n) == SubSeq(q, 1, IF Len(q) < n THEN Len(q) ELSE n)

\* processCandidates with no options: maxCandidates is candidateIndices.length.
matchesOf(similarities) ==
    LET sortedIndices == sortDescending([i \in DOMAIN similarities |-> i], similarities)
        allMatches == matchLoop(similarities, sortedIndices, Len(similarities), 1, 0, <<>>)
    IN Slice(sortDescending(allMatches, similarities), MAX_MATCHES)

TopMatchesOf ==
    Batch("parallelProcessor.processCandidates", Returns(InitVec, matchesOf(ret.arg)))

InitSelect == InitArgs(SeqsUpTo(Similarities, MaxCandidates))
NextSelect == TopMatchesOf
SpecSelect == InitSelect /\ [][NextSelect]_vars

\* ------------------------------------------------------------ withRetry
\* The two retry wrappers, lib/supabase.withRetry (impl "supabase") and
\* parallelProcessor.withRetry (impl "parallelProcessor"), run on one operation.
\* ret is the call: state running (the operation is in flight), waiting (in the
\* setTimeout before the next attempt), returned or thrown; retries and delay are
\* the parameters of the current supabase call, i the loop index of
\* parallelProcessor's; attempts, delays, errors and allRetryable record what
\* happened. The operation of parallelProcessor's wrapper is processor(item), the
\* processor being preprocessUrl: item is the row, with or without a URL.
MAX_RETRIES == 3
RETRY_DELAY == 1000

\* An error as isRetryableError sees it: message, code ('' when absent), status (0
\* when absent).
Err(message, code, status) == [message |-> message, code |-> code, status |-> status]

\* new Error('URL is required for preprocessing'), thrown by preprocessUrl
DataError == Err("URL is required for preprocessing", "", 0)

OperationErrors ==
    {Err("Failed to fetch", "", 0), Err("duplicate key value", "23505", 0),
     Err("gateway timeout", "", 504), Err("no rows", "PGRST116", 406),
     Err("permission denied", "42501", 403), DataError}

\* error.message?.includes('fetch')
IncludesFetch(message) == message \in {"Failed to fetch", "fetch failed"}

isRetryableError(error) ==
    \/ IncludesFetch(error.message)
    \/ error.code \in {"PGRST301", "PGRST302", "23505"}
    \/ error.status \in {408, 429, 500, 502, 503, 504}

\* Mutant of shouldRetry: the error's class is not looked at.
shouldRetryAnyError(retries, error) == retries > 0

\* if (retries > 0 && isRetryableError(error)), the catch of supabase's withRetry
shouldRetry(retries, error) == retries > 0 /\ isRetryableError(error)

RetryCall(impl, item) ==
    [op |-> "withRetry", impl |-> impl, item |-> item, state |-> "running",
     retries |-> MAX_RETRIES, delay |-> RETRY_DELAY, i |-> 0,
     attempts |-> 0, delays |-> <<>>, errors |-> <<>>, allRetryable |-> TRUE,
     thrown |-> DataError, slot |-> "empty"]

\* What the operation can do when it settles: the errors it can throw ({} stands
\* for none), and whether it can succeed. A row without a URL always makes
\* preprocessUrl throw.
Failures(c) == IF c.item = "noUrl" THEN {DataError} ELSE OperationErrors
CanSucceed(c) == c.item # "noUrl"

Failed(c, error) ==
    LET seen == [c EXCEPT !.attempts = @ + 1, !.errors = Append(@, error),
                          !.allRetryable = @ /\ isRetryableError(error)]
    IN IF c.impl = "supabase"
       THEN IF shouldRetry(c.retries, error)
            THEN [seen EXCEPT !.state = "waiting", !.delays = Append(@, c.delay)]
            ELSE [seen EXCEPT !.state = "thrown", !.thrown = error]
       ELSE IF c.i < MAX_RETRIES - 1
            THEN [seen EXCEPT !.state = "waiting",
                              !.delays = Append(@, RETRY_DELAY * (c.i + 1))]
            ELSE [seen EXCEPT !.state = "thrown", !.thrown = error, !.i = @ + 1]

\* The operation settles: return await operation() or the catch block. A value
\* returned through processBatchInParallel fills the item's slot of results.
OperationSettles ==
    /\ ret.state = "running"
    /\ \/ /\ CanSucceed(ret)
          /\ ret' = [ret EXCEPT !.attempts = @ + 1, !.state = "returned",
                                !.slot = IF ret.impl = "parallelProcessor"
                                         THEN "value" ELSE @]
       \/ \E error \in Failures(ret) : ret' = Failed(ret, error)
    /\ UNCHANGED <<poolVars, app, db, vec>>

\* The timer of the wait fires: withRetry(operation, retries - 1, delay * 2), or
\* the next round of the for loop.
RetryTimer ==
    /\ ret.state = "waiting"
    /\ ret' = IF ret.impl = "supabase"
              THEN [ret EXCEPT !.state = "running", !.retries = @ - 1, !.delay = @ * 2]
              ELSE [ret EXCEPT !.state = "running", !.i = @ + 1]
    /\ UNCHANGED <<poolVars, app, db, vec>>

InitRetry ==
    /\ InitPoolFields(PoolSize)
    /\ app = <<>>
    /\ db = <<>>
    /\ vec = InitVec
    /\ ret \in {RetryCall("supabase", "operation"), RetryCall("parallelProcessor", "row"),
                RetryCall("parallelProcessor", "noUrl")}

NextRetry ==
    \/ OperationSettles
    \/ RetryTimer

SpecRetry == InitRetry /\ [][NextRetry]_vars

\* ------------------------------------------------ getTargetUrlListId
\* Concurrent calls of lib/supabase.getTargetUrlListId on the table
\* target_url_lists, whose column hash is UNIQUE. db is the table (rows of id, hash
\* and urls, ids being handed out in turn for gen_random_uuid()); ret[p] is call p:
\* its argument urls, where it stands (select: awaiting the select; insert: awaiting
\* the insert; waiting: in withRetry's delay; returned; thrown), the retries left
\* and the id returned. A URL is a number (its rank in sort order). The SHA-256
\* digest of sortedUrls.join('|') is kept as the joined list itself.
NumCallers == 2          \* concurrent calls
NumUrls == 2             \* distinct URLs
MaxUrls == 2             \* URLs in a list

UrlLists == SeqsUpTo(1..NumUrls, MaxUrls)

\* Mutant of sortedCopy: the list is hashed as given.
unsortedCopy(urls) == urls

RECURSIVE sortedCopy(_)
\* [...urls].sort()
sortedCopy(urls) ==
    IF urls = <<>> THEN <<>>
    ELSE LET p == MinOf({i \in DOMAIN urls : \A j \in DOMAIN urls : urls[i] <= urls[j]})
         IN <<urls[p]>> \o sortedCopy(Without(urls, p))

HashOf(sortedUrls) == sortedUrls

UniqueViolation == Err("duplicate key value violates unique constraint", "23505", 0)

\* The errors a request to the database can fail with besides a constraint.
RequestErrors == {Err("Failed to fetch", "", 0), Err("permission denied", "42501", 403)}

ListCall(urls) ==
    [urls |-> urls, pc |-> "select", retries |-> MAX_RETRIES, id |-> 0]

\* The catch of withRetry around the operation of call p
ListCallFailed(c, error) ==
    IF shouldRetry(c.retries, error) THEN [c EXCEPT !.pc = "waiting"]
    ELSE [c EXCEPT !.pc = "thrown"]

\* .from('target_url_lists').select('id').eq('hash', hash).maybeSingle() answers
ListSelected(p) ==
    /\ ret[p].pc = "select"
    /\ LET hash == HashOf(sortedCopy(ret[p].urls))
           existing == {row \in db.rows : row.hash = hash}
       IN \/ \E error \in RequestErrors :
                ret' = [ret EXCEPT ![p] = ListCallFailed(@, error)]
          \/ /\ existing # {}
             /\ \E row \in existing : ret' = [ret EXCEPT ![p].pc = "returned", ![p].id = row.id]
          \/ /\ existing = {}
             /\ ret' = [ret EXCEPT ![p].pc = "insert"]
    /\ UNCHANGED <<poolVars, app, db, vec>>

\* .insert({ urls: sortedUrls, hash }).select('id').maybeSingle() answers
ListInserted(p) ==
    /\ ret[p].pc = "insert"
    /\ LET sortedUrls == sortedCopy(ret[p].urls)
           hash == HashOf(sortedUrls)
       IN IF \E row \in db.rows : row.hash = hash
          THEN /\ ret' = [ret EXCEPT ![p] = ListCallFailed(@, UniqueViolation)]
               /\ db' = db
          ELSE \/ /\ \E error \in RequestErrors :
                        ret' = [ret EXCEPT ![p] = ListCallFailed(@, error)]
                  /\ db' = db
               \/ /\ db' = [rows |-> db.rows \cup {[id |-> db.nextId, hash |-> hash,
                                                   urls |-> sortedUrls]},
                            nextId |-> db.nextId + 1]
                  /\ ret' = [ret EXCEPT ![p].pc = "returned", ![p].id = db.nextId]
    /\ UNCHANGED <<poolVars, app, vec>>

\* withRetry's delay is over: the operation runs again.
ListRetried(p) ==
    /\ ret[p].pc = "waiting"
    /\ ret' = [ret EXCEPT ![p].pc = "select", ![p].retries = @ - 1]
    /\ UNCHANGED <<poolVars, app, db, vec>>

InitLists ==
    /\ InitPoolFields(PoolSize)
    /\ app = <<>>
    /\ vec = InitVec
    /\ db = [rows |-> {}, nextId |-> 1]
    /\ ret \in [1..NumCallers -> {ListCall(urls) : urls \in UrlLists}]

NextLists ==
    \E p \in 1..NumCallers :
        \/ ListSelected(p)
        \/ ListInserted(p)
        \/ ListRetried(p)

SpecLists == InitLists /\ [][NextLists]_vars

\* ------------------------------------------------ topicExtraction.InvertedIndex
\* db is the index: index[term] is the posting set of the term, as the list of
\* document ids in insertion order (a JavaScript Set), documents[docId] the terms
\* stored for the document. ret is the last search.
InitIndex == [index |-> [term \in Terms |-> <<>>], documents |-> EmptyMap]

Elements(q) == {q[i] : i \in DOMAIN q}

\* set.add(x)
SetAdd(q, x) == IF x \in Elements(q) THEN q ELSE Append(q, x)

addDocument(I, docId, terms) ==
    [index |-> [term \in Terms |-> IF term \in TermsOf(terms)
                                   THEN SetAdd(I.index[term], docId) ELSE I.index[term]],
     documents |-> Put(I.documents, docId, terms)]

search(I, terms) ==
    LET docSets == SelectSeq([i \in DOMAIN terms |-> I.index[terms[i]]],
                             LAMBDA set : Len(set) > 0)
    IN IF terms = <<>> \/ docSets = <<>> THEN <<>>
       ELSE SelectSeq(docSets[1],
                      LAMBDA docId : \A i \in 2..Len(docSets) : docId \in Elements(docSets[i]))

IndexAddDocument ==
    /\ \E docId \in 1..MaxDocs, terms \in Docs : db' = addDocument(db, docId, terms)
    /\ UNCHANGED <<poolVars, app, vec, ret>>

IndexSearch ==
    /\ \E terms \in Docs :
          ret' = [op |-> "search", arg |-> terms, threw |-> FALSE, value |-> search(db, terms)]
    /\ UNCHANGED <<poolVars, app, vec, db>>

InitIndexSpec ==
    /\ InitPoolFields(PoolSize)
    /\ app = <<>>
    /\ vec = InitVec
    /\ db = InitIndex
    /\ ret = [op |-> "none", arg |-> <<>>, threw |-> FALSE, value |-> <<>>]

NextIndex ==
    \/ IndexAddDocument
    \/ IndexSearch

SpecIndex == InitIndexSpec /\ [][NextIndex]_vars

\* ------------------------------------------------------ prefixIndex.PrefixIndex
\* A text is a list of words (text.split(/\s+/)), a word a list of characters. db is
\* the index (index[prefix]: the set of document ids, for the prefixes that have an
\* entry), the prefixes of the words of each document added (a record of what the
\* documents contain) and the number of addDocument calls; ret is
\* the query made once the documents are added. The GPU branch and the CPU fallback
\* of findCandidates do the same with the index.
MaxWordLen == 3          \* characters in a word
MaxWords == 2            \* words in a text or a phrase
MaxAdds == 2             \* addDocument calls

\* private prefixLength: number = 3
prefixLength == 3

Characters == {"a", "B"}
Words == UNION {[1..n -> Characters] : n \in 2..MaxWordLen}
Texts == UNION {[1..n -> Words] : n \in 1..MaxWords}

\* toLowerCase()
toLowerCase(word) == [i \in DOMAIN word |-> IF word[i] = "B" THEN "b" ELSE word[i]]

\* word.slice(0, this.prefixLength) of the lower-cased words long enough
PrefixesOf(text) ==
    {SubSeq(toLowerCase(text[i]), 1, prefixLength) :
        i \in {j \in DOMAIN text : Len(text[j]) >= prefixLength}}

InitPrefixIndex == [index |-> EmptyMap, added |-> {}, adds |-> 0]

prefixAddDocument(I, docId, text) ==
    [index |-> [prefix \in DOMAIN I.index \cup PrefixesOf(text) |->
                   IF prefix \in PrefixesOf(text)
                   THEN (IF prefix \in DOMAIN I.index THEN I.index[prefix] ELSE {}) \cup {docId}
                   ELSE I.index[prefix]],
     added |-> I.added \cup {<<docId, prefix>> : prefix \in PrefixesOf(text)},
     adds |-> I.adds + 1]

RECURSIVE findLoop(_, _, _, _, _)
\* words.forEach(...) of findCandidates from word k on
findLoop(I, words, k, candidates, isFirst) ==
    IF k > Len(words) THEN candidates
    ELSE LET prefix == SubSeq(toLowerCase(words[k]), 1, prefixLength) IN
         IF Len(words[k]) >= prefixLength /\ prefix \in DOMAIN I.index
         THEN findLoop(I, words, k + 1,
                       IF isFirst THEN I.index[prefix] ELSE candidates \cap I.index[prefix],
                       FALSE)
         ELSE findLoop(I, words, k + 1, candidates, isFirst)

findCandidates(I, phrase) == findLoop(I, phrase, 1, {}, TRUE)

PrefixAddDocument ==
    /\ ret.op = "none"
    /\ db.adds < MaxAdds
    /\ \E docId \in 1..MaxDocs, text \in Texts : db' = prefixAddDocument(db, docId, text)
    /\ UNCHANGED <<poolVars, app, vec, ret>>

FindCandidates ==
    /\ ret.op = "none"
    /\ \E phrase \in Texts :
          ret' = [op |-> "findCandidates", arg |-> phrase, threw |-> FALSE,
                  value |-> findCandidates(db, phrase)]
    /\ UNCHANGED <<poolVars, app, vec, db>>

InitPrefix ==
    /\ InitPoolFields(PoolSize)
    /\ app = <<>>
    /\ vec = InitVec
    /\ db = InitPrefixIndex
    /\ ret = [op |-> "none", arg |-> <<>>, threw |-> FALSE, value |-> <<>>]

NextPrefix ==
    \/ PrefixAddDocument
    \/ FindCandidates

SpecPrefix == InitPrefix /\ [][NextPrefix]_vars

\* ------------------------------------------------------------ minHash.MinHash
\* db is a MinHash object: numHashes and bands as given to the constructor,
\* documents (docId -> signature) and buckets (bucket key -> set of docIds, a key
\* being the band number and the band's slice of the signature). A term is the list
\* of its character codes. The hashes are those of the CPU branch. For the terms
\* within the bounds a hash stays below 2^31, so neither % this.prime (4294967311)
\* nor >>> 0 changes it.
MaxHashes == 2           \* numHashes
MaxBands == 2            \* bands
MaxTermLen == 2          \* characters in a term

\* new Uint32Array(n).fill(Infinity): the conversion of Infinity to Uint32 is 0
FillInfinity == 0

HashTerms == UNION {[1..n -> {97, 98}] : n \in 1..MaxTermLen}

\* this.hashSeeds[i] = Math.abs((31 * (i + 1)) % Number.MAX_SAFE_INTEGER), for the
\* position i counted from 1
hashSeed(i) == 31 * i

RECURSIVE hashFrom(_, _, _)
\* for (j ...) hash = (hash * 31 + term.charCodeAt(j)) % this.prime, from j on
hashFrom(hash, term, j) ==
    IF j > Len(term) THEN hash ELSE hashFrom(hash * 31 + term[j], term, j + 1)

termHash(i, term) == hashFrom(hashSeed(i), term, 1)

\* signature.fill(Infinity), then signature[i] = Math.min(signature[i], hash) for
\* every term
signatureOf(M, terms) ==
    [i \in 1..M.numHashes |-> MinOf({FillInfinity} \cup {termHash(i, term) : term \in terms})]

\* `${i}:${bandSignature.join(',')}` for every band i
bucketKeys(M, signature) ==
    LET rowsPerBand == M.numHashes \div M.bands IN
    {<<i, SubSeq(signature, (i - 1) * rowsPerBand + 1, i * rowsPerBand)>> : i \in 1..M.bands}

minHashAddDocument(M, docId, terms) ==
    LET signature == signatureOf(M, terms) IN
    [M EXCEPT !.documents = Put(@, docId, signature),
              !.buckets = [key \in DOMAIN @ \cup bucketKeys(M, signature) |->
                              IF key \in bucketKeys(M, signature)
                              THEN (IF key \in DOMAIN @ THEN @[key] ELSE {}) \cup {docId}
                              ELSE @[key]]]

findSimilarDocuments(M, terms) ==
    LET signature == signatureOf(M, terms) IN
    [signature |-> signature,
     candidates |-> UNION {M.buckets[key] : key \in bucketKeys(M, signature) \cap DOMAIN M.buckets}]

MinHashAddDocument ==
    /\ \E docId \in 1..MaxDocs, terms \in SUBSET HashTerms :
          /\ db' = minHashAddDocument(db, docId, terms)
          /\ ret' = [op |-> "minHash.addDocument", arg |-> [docId |-> docId, terms |-> terms],
                     threw |-> FALSE, value |-> <<>>]
    /\ UNCHANGED <<poolVars, app, vec>>

FindSimilarDocuments ==
    /\ \E terms \in SUBSET HashTerms :
          ret' = [op |-> "findSimilarDocuments", arg |-> [docId |-> 0, terms |-> terms],
                  threw |-> FALSE, value |-> findSimilarDocuments(db, terms)]
    /\ UNCHANGED <<poolVars, app, vec, db>>

InitMinHash ==
    /\ InitPoolFields(PoolSize)
    /\ app = <<>>
    /\ vec = InitVec
    /\ db \in {[numHashes |-> n, bands |-> b, documents |-> EmptyMap, buckets |-> EmptyMap] :
                  n \in 1..MaxHashes, b \in 1..MaxBands}
    /\ ret = [op |-> "none", arg |-> <<>>, threw |-> FALSE, value |-> <<>>]

NextMinHash ==
    \/ MinHashAddDocument
    \/ FindSimilarDocuments

SpecMinHash == InitMinHash /\ [][NextMinHash]_vars

\* ------------------------------------------------------------ BloomFilter
\* utils/bloomFilter.ts.  db is the filter: size, numHashes, bits (the set of
\* <<arrayIndex, bitIndex>> whose bit is 1 in the Uint32Array), hashCache, and
\* added, the values add has taken since the last clear.
MaxExpected == 4

\* The false positive rates 1, 0.5 and 0.01 (the default), by their inverses.
InverseRates == {1, 2, 100}

\* -Math.log(p) for p = 1 / q, in thousandths
NegLogMilli(q) == IF q = 100 THEN 4605 ELSE LnMilli[q]

\* Math.ceil(a / b) for a >= 0, b > 0
CeilDiv(a, b) == (a + b - 1) \div b

\* The value of 0 / 0 and of hash % 0.
NaN == -1

\* Math.ceil(-(n * Math.log(p)) / (Math.log(2) * Math.log(2))), Math.log(2) taken as
\* 0.693: exact for the rates and item counts within the bounds.
calculateOptimalSize(n, q) == CeilDiv(n * NegLogMilli(q) * 1000, LnMilli[2] * LnMilli[2])

\* Math.max(1, Math.min(Math.ceil((m / n) * Math.log(2)), 16)); m / n is NaN for
\* n = 0 (then m = 0), and Math.min and Math.max hand a NaN on.
calculateOptimalHashes(n, m) ==
    IF n = 0 THEN NaN
    ELSE LET k == CeilDiv(m * LnMilli[2], n * 1000) IN
         IF k < 1 THEN 1 ELSE IF k > 16 THEN 16 ELSE k

BloomFilter(expectedItems, q) ==
    LET size == calculateOptimalSize(expectedItems, q) IN
    [size |-> size, numHashes |-> calculateOptimalHashes(expectedItems, size),
     bits |-> {}, hashCache |-> EmptyMap, added |-> {}]

\* let hash = i + 1; for (j ...) hash = (Math.imul(hash, 31) + value.charCodeAt(j))
\* >>> 0; hashValues[i] = Math.abs(hash % this.size), for the position i counted
\* from 1.  Within the bounds hash stays below 2^31, where Math.imul is the
\* product and >>> 0 changes nothing.
hashValue(B, i, value) ==
    IF B.size = 0 THEN NaN ELSE hashFrom(i, value, 1) % B.size

\* new Array(this.numHashes) throws a RangeError when numHashes is NaN.
getHashValues(B, value) ==
    IF value \in DOMAIN B.hashCache THEN [db |-> B, threw |-> FALSE, value |-> B.hashCache[value]]
    ELSE IF B.numHashes = NaN THEN [db |-> B, threw |-> TRUE, value |-> <<>>]
    ELSE LET hashValues == [i \in 1..B.numHashes |-> hashValue(B, i, value)] IN
         [db |-> [B EXCEPT !.hashCache = Put(@, value, hashValues)],
          threw |-> FALSE, value |-> hashValues]

\* arrayIndex = Math.floor(hash / 32), bitIndex = hash % 32
BitOf(hash) == <<hash \div 32, hash % 32>>

\* this.bits[arrayIndex] |= 1 << bitIndex for every hash; a store at the index NaN
\* of a Uint32Array stores nothing.
bloomAdd(B, value) ==
    LET h == getHashValues(B, value) IN
    IF h.threw THEN h
    ELSE [db |-> [h.db EXCEPT
                     !.bits = @ \cup {BitOf(h.value[i]) : i \in {j \in DOMAIN h.value : h.value[j] # NaN}},
                     !.added = @ \cup {value}],
          threw |-> FALSE, value |-> <<>>]

\* false at the first hash whose bit is 0; this.bits[NaN] is undefined, and
\* undefined & (1 << NaN) is 0.
bloomTest(B, value) ==
    LET h == getHashValues(B, value) IN
    IF h.threw THEN h
    ELSE [h EXCEPT !.value = \A i \in DOMAIN h.value :
                                 h.value[i] # NaN /\ BitOf(h.value[i]) \in h.db.bits]

\* this.bits.fill(0); this.hashCache.clear()
bloomClear(B) == [B EXCEPT !.bits = {}, !.hashCache = EmptyMap, !.added = {}]

BloomCalled(op, value, r) ==
    /\ db' = r.db
    /\ ret' = [op |-> op, arg |-> value, threw |-> r.threw, value |-> r.value]
    /\ UNCHANGED <<poolVars, app, vec>>

BloomAdd == \E value \in HashTerms : BloomCalled("bloom.add", value, bloomAdd(db, value))

BloomTest == \E value \in HashTerms : BloomCalled("bloom.test", value, bloomTest(db, value))

BloomClear ==
    BloomCalled("bloom.clear", <<>>, [db |-> bloomClear(db), threw |-> FALSE, value |-> <<>>])

InitBloom ==
    /\ InitPoolFields(PoolSize)
    /\ app = <<>>
    /\ vec = InitVec
    /\ db \in {BloomFilter(n, q) : n \in 0..MaxExpected, q \in InverseRates}
    /\ ret = [op |-> "none", arg |-> <<>>, threw |-> FALSE, value |-> <<>>]

NextBloom ==
    \/ BloomAdd
    \/ BloomTest
    \/ BloomClear

SpecBloom == InitBloom /\ [][NextBloom]_vars

\* ---------------------------------------------------------- worker scripts
\* The onmessage handlers of workers/dynamic.worker.ts, workers/similarity.worker.ts
\* and the simple test worker.  db is the worker's realm: the script it runs, its
\* isInitialized flag and the number of task messages received; ret is the
\* activation of onmessage for the task received last: where it stands (pc), the
\* task's id and payload, and the messages it has posted.  The pool posts a task to
\* a worker only when the worker has reported on the one before, so the activations
\* do not overlap.  The handlers are async functions: an exception in them rejects
\* the promise of the activation and raises no error event, so self.onerror, which
\* posts an 'error' without task id, is not run by the handling of a task.  The
\* outcomes of the awaited calls are inputs.
MaxMessages == 3

Scripts == {"dynamic", "similarity", "simple"}

\* payload: is there one, does it carry test: true, does it hold source, targets,
\* targetVectors and idfMap
Payloads ==
    {p \in [has : BOOLEAN, test : BOOLEAN, complete : BOOLEAN] :
        ~p.has => (~p.test /\ ~p.complete)}

\* self.postMessage({type, taskId: id, ...}); result is what a 'result' message
\* carries: the test result, null, or the matches found (none or some)
postResult(r, result) ==
    [r EXCEPT !.posted = Append(@, [type |-> "result", taskId |-> r.id, result |-> result])]

postMessage(r, type) ==
    [r EXCEPT !.posted = Append(@, [type |-> type, taskId |-> r.id, result |-> "none"])]

Finished(r) == [r EXCEPT !.pc = "done"]
Awaiting(r, call) == [r EXCEPT !.pc = call]

\* dynamic.worker: catch (error) { self.postMessage({type: 'error', taskId: id, ...}) }
dynamicCatch(r) == Finished(postMessage(r, "error"))

\* dynamic.worker from the payload destructuring on: a missing field throws, then
\* await similarityProcessor.calculateTFIDF(source.doc)
dynamicProcess(r) ==
    IF ~r.payload.has \/ ~r.payload.complete THEN dynamicCatch(r)
    ELSE Awaiting(r, "calculateTFIDF")

\* dynamic.worker onmessage up to its first await
dynamicOnMessage(isInitialized, r) ==
    IF r.payload.has /\ r.payload.test THEN Finished(postResult(r, "test"))
    ELSE IF ~isInitialized THEN Awaiting(r, "initializeWorker")
    ELSE dynamicProcess(r)

\* Mutant of similarityCatch: the error is logged and not reported.
similarityCatchLogsOnly(r) == Finished(r)

\* similarity.worker: catch (error) { self.postMessage({type: 'error', taskId: id,
\* message: JSON.stringify(errorMessage)}) } finally { cleanup }.  The errors of
\* processCandidates and markSourceUrlProcessed carry no circular cause, so
\* JSON.stringify returns; clearPreprocessingCache and clearMemory do not throw.
similarityCatch(r) == Finished(postMessage(r, "error"))

\* similarity.worker onmessage up to its first await: a progress message, the
\* payload destructuring, targets.length, then await processCandidates(...)
similarityOnMessage(r) ==
    LET r1 == postMessage(r, "progress") IN
    IF ~r.payload.has \/ ~r.payload.complete THEN similarityCatch(r1)
    ELSE Awaiting(r1, "processCandidates")

\* the simple worker: the result is posted at once
simpleOnMessage(r) == Finished(postResult(r, "test"))

onmessage(W, r) ==
    IF W.script = "dynamic" THEN dynamicOnMessage(W.isInitialized, r)
    ELSE IF W.script = "similarity" THEN similarityOnMessage(r)
    ELSE simpleOnMessage(r)

\* The worker has settled one of the awaited calls of the activation.
Resumed(W, r) ==
    /\ db' = W
    /\ ret' = r
    /\ UNCHANGED <<poolVars, app, vec>>

\* A task message arrives: { id, payload } = e.data
OnMessage ==
    /\ ret.pc \in {"idle", "done"}
    /\ db.received < MaxMessages
    /\ \E payload \in Payloads :
          Resumed([db EXCEPT !.received = @ + 1],
                  onmessage(db, [pc |-> "start", id |-> db.received + 1,
                                 payload |-> payload, posted |-> <<>>]))

\* await initializeWorker() has settled: the dynamic imports succeeded or failed
DynamicInitialized ==
    /\ db.script = "dynamic" /\ ret.pc = "initializeWorker"
    /\ \/ Resumed([db EXCEPT !.isInitialized = TRUE], dynamicProcess(ret))
       \/ Resumed(db, dynamicCatch(ret))

\* await calculateTFIDF(source.doc) has settled: it threw, or gave an empty vector
\* (an error is thrown), or gave a vector
DynamicVector ==
    /\ db.script = "dynamic" /\ ret.pc = "calculateTFIDF"
    /\ \E outcome \in {"throws", "empty", "vector"} :
          Resumed(db, IF outcome = "vector" THEN Awaiting(ret, "processCandidates")
                      ELSE dynamicCatch(ret))

\* await processCandidates(...) has settled in dynamic.worker: the result is posted
\* with or without matches
DynamicCandidates ==
    /\ db.script = "dynamic" /\ ret.pc = "processCandidates"
    /\ \E outcome \in {"throws", "none", "matches"} :
          Resumed(db, IF outcome = "throws" THEN dynamicCatch(ret)
                      ELSE Finished(postResult(ret, outcome)))

\* await processCandidates(...) has settled in similarity.worker: without matches
\* the result null is posted, with matches markSourceUrlProcessed is awaited
SimilarityCandidates ==
    /\ db.script = "similarity" /\ ret.pc = "processCandidates"
    /\ \E outcome \in {"throws", "none", "matches"} :
          Resumed(db, IF outcome = "throws" THEN similarityCatch(ret)
                      ELSE IF outcome = "none" THEN Finished(postResult(ret, "null"))
                      ELSE Awaiting(ret, "markSourceUrlProcessed"))

\* await markSourceUrlProcessed(...) has settled
SimilarityMarked ==
    /\ db.script = "similarity" /\ ret.pc = "markSourceUrlProcessed"
    /\ \E threw \in BOOLEAN :
          Resumed(db, IF threw THEN similarityCatch(ret)
                      ELSE Finished(postResult(ret, "matches")))

InitWorker ==
    /\ InitPoolFields(PoolSize)
    /\ app = <<>>
    /\ vec = <<>>
    /\ db \in {[script |-> s, isInitialized |-> FALSE, received |-> 0] : s \in Scripts}
    /\ ret = [pc |-> "idle", id |-> 0, payload |-> [has |-> FALSE, test |-> FALSE,
                                                     complete |-> FALSE],
              posted |-> <<>>]

NextWorker ==
    \/ OnMessage
    \/ DynamicInitialized
    \/ DynamicVector
    \/ DynamicCandidates
    \/ SimilarityCandidates
    \/ SimilarityMarked

SpecWorker == InitWorker /\ [][NextWorker]_vars

\* ------------------------------------------- utils/tfidf and memoryManager
\* utils/tfidf.ts (the consolidated TF-IDF module) with the memory manager of
\* workers/modules/memoryManager.ts, which clears its caches.  vec is the state of
\* utils/tfidf, app that of the memory manager, db the caller's documents: the
\* term arrays the calls are given (the functions receive the arrays themselves,
\* not copies), ret the call made last.  Terms are numbered in their sort order.
Null == <<>>
Some(x) == <<x>>

RECURSIVE InsertSorted(_, _)
InsertSorted(q, x) ==
    IF q = <<>> THEN <<x>>
    ELSE IF x <= Head(q) THEN <<x>> \o q
    ELSE <<Head(q)>> \o InsertSorted(Tail(q), x)

RECURSIVE sortInPlace(_)
\* doc.sort(): the array itself is reordered
sortInPlace(doc) ==
    IF doc = <<>> THEN <<>> ELSE InsertSorted(sortInPlace(Tail(doc)), Head(doc))

InitTfidf ==
    [vectorCache |-> EmptyMap, termIndexCache |-> EmptyMap, idfCache |-> EmptyMap,
     globalVocabulary |-> Null, corpusHash |-> Null]

\* The vocabulary, the term index and the IDF table in force.
TfidfTable(T) ==
    [globalVocabulary |-> T.globalVocabulary, termIndexCache |-> T.termIndexCache,
     idfCache |-> T.idfCache]

clearAllCaches(T) == InitTfidf

\* allDocs.map(doc => doc.sort().join('|')).sort().join('||'), hashed: every
\* document is sorted in place; the hash is taken as the sorted list of the sorted
\* documents.  heap is the caller's arrays, ids the documents passed.
generateCorpusHash(heap, ids) ==
    LET sortedHeap == [i \in DOMAIN heap |-> IF i \in ids THEN sortInPlace(heap[i]) ELSE heap[i]]
    IN [heap |-> sortedHeap,
        hash |-> Some([count |-> [d \in {sortedHeap[i] : i \in ids} |->
                                     Cardinality({i \in ids : sortedHeap[i] = d})]])]

TfidfReturns(T, heap, value) == [vec |-> T, heap |-> heap, threw |-> FALSE, value |-> value]
TfidfThrows(T, heap) == [vec |-> T, heap |-> heap, threw |-> TRUE, value |-> <<>>]

\* precomputeIDF(allDocs) of utils/tfidf, allDocs holding the documents ids of the heap
tfidfPrecomputeIDF(T, heap, ids) ==
    IF ids = {} THEN TfidfThrows(T, heap)
    ELSE LET h == generateCorpusHash(heap, ids)
             uniqueTerms == UNION {TermsOf(h.heap[i]) : i \in ids}
             terms == Sorted(uniqueTerms)
             df(term) == Cardinality({i \in ids : term \in TermsOf(h.heap[i])})
             idf == [term \in uniqueTerms |-> SmoothedIdf(Cardinality(ids), df(term))]
         IN IF T.corpusHash = h.hash /\ DOMAIN T.idfCache # {} /\ T.globalVocabulary # Null
            THEN TfidfReturns(T, h.heap, T.idfCache)
            ELSE TfidfReturns([vectorCache |-> EmptyMap,
                               termIndexCache |-> [term \in uniqueTerms |->
                                   CHOOSE i \in DOMAIN terms : terms[i] = term],
                               idfCache |-> idf,
                               globalVocabulary |-> Some(terms),
                               corpusHash |-> h.hash],
                              h.heap, idf)

\* calculateTF with the default configuration: 1 + Math.log(count), in thousandths
calculateTF(doc) == [term \in TermsOf(doc) |-> 1000 + LnMilli[Count(doc, term)]]

\* The vector of doc before its L2 normalisation (a division of every component by
\* the same positive number), in millionths.
tfidfVector(T, doc) ==
    LET tf == calculateTF(doc)
        terms == T.globalVocabulary[1]
    IN [i \in DOMAIN terms |->
           IF terms[i] \in DOMAIN tf /\ terms[i] \in DOMAIN T.termIndexCache
           THEN tf[terms[i]] * (IF terms[i] \in DOMAIN T.idfCache THEN T.idfCache[terms[i]] ELSE 0)
           ELSE 0]

\* calculateTFIDF(doc, allDocs?) of utils/tfidf: doc is document d of the heap;
\* the cache key is doc.sort().join('|') + JSON.stringify(config)
tfidfCalculateTFIDF(T, heap, d, hasAllDocs, ids) ==
    LET sorted == [heap EXCEPT ![d] = sortInPlace(@)]
        docKey == sorted[d]
    IN IF docKey \in DOMAIN T.vectorCache
       THEN TfidfReturns(T, sorted, T.vectorCache[docKey])
       ELSE LET pre == IF DOMAIN T.idfCache = {} \/ T.globalVocabulary = Null
                       THEN IF ~hasAllDocs THEN TfidfThrows(T, sorted)
                            ELSE tfidfPrecomputeIDF(T, sorted, ids)
                       ELSE TfidfReturns(T, sorted, <<>>)
            IN IF pre.threw \/ pre.vec.globalVocabulary = Null
               THEN TfidfThrows(pre.vec, pre.heap)
               ELSE LET vector == tfidfVector(pre.vec, pre.heap[d]) IN
                    TfidfReturns([pre.vec EXCEPT !.vectorCache = Put(@, docKey, vector)],
                                 pre.heap, vector)

\* hasCorpusChanged(allDocs)
hasCorpusChanged(T, heap, ids) ==
    IF T.corpusHash = Null THEN TfidfReturns(T, heap, TRUE)
    ELSE LET h == generateCorpusHash(heap, ids) IN
         TfidfReturns(T, h.heap, h.hash # T.corpusHash)

\* checkMemory(): due is whether MEMORY_CHECK_INTERVAL has passed since the last
\* check, critical whether the heap usage is at or above the critical threshold.
\* performCleanup calls clearAllCaches.
checkMemory(M, T, due, critical) ==
    IF ~due THEN [app |-> M, vec |-> T, value |-> M.isMemoryOK]
    ELSE IF ~M.hasMemoryApi THEN [app |-> M, vec |-> T, value |-> M.isMemoryOK]
    ELSE [app |-> [M EXCEPT !.isMemoryOK = ~critical],
          vec |-> IF critical THEN clearAllCaches(T) ELSE T,
          value |-> ~critical]

TfidfCalled(op, arg, r) ==
    /\ vec' = r.vec
    /\ db' = r.heap
    /\ ret' = [op |-> op, arg |-> arg, threw |-> r.threw, value |-> r.value]
    /\ UNCHANGED <<poolVars, app>>

\* The corpus of the run is the documents of the heap.
TfidfPrecomputeIDF ==
    TfidfCalled("tfidf.precomputeIDF", DOMAIN db, tfidfPrecomputeIDF(vec, db, DOMAIN db))

TfidfCalculateTFIDF ==
    \E d \in DOMAIN db, hasAllDocs \in BOOLEAN :
        TfidfCalled("tfidf.calculateTFIDF", d,
                    tfidfCalculateTFIDF(vec, db, d, hasAllDocs, DOMAIN db))

HasCorpusChanged ==
    TfidfCalled("hasCorpusChanged", DOMAIN db, hasCorpusChanged(vec, db, DOMAIN db))

\* processBatchInParallel asks checkMemory before every batch.
CheckMemory ==
    \E due \in BOOLEAN, critical \in BOOLEAN :
        LET r == checkMemory(app, vec, due, critical) IN
        /\ app' = r.app
        /\ vec' = r.vec
        /\ ret' = [op |-> "checkMemory", arg |-> <<>>, threw |-> FALSE, value |-> r.value]
        /\ UNCHANGED <<poolVars, db>>

InitTfidfSpec ==
    /\ InitPoolFields(PoolSize)
    /\ app \in {[isMemoryOK |-> TRUE, hasMemoryApi |-> api] : api \in BOOLEAN}
    /\ vec = InitTfidf
    /\ db \in Corpora \ {<<>>}
    /\ ret = [op |-> "none", arg |-> <<>>, threw |-> FALSE, value |-> <<>>]

NextTfidf ==
    \/ TfidfPrecomputeIDF
    \/ TfidfCalculateTFIDF
    \/ HasCorpusChanged
    \/ CheckMemory

SpecTfidf == InitTfidfSpec /\ [][NextTfidf]_vars

\* ------------------------------------------------ processBatchInParallel
\* workers/modules/parallelProcessor.ts processBatchInParallel over the memory
\* manager.  app is the memory manager with the time since its last check, vec the
\* caches it clears, ret the activation: pc, the start i of the current batch, and
\* for every item the processor calls made (calls) and how its withRetry stands.
MaxItems == 2
MEMORY_CHECK_INTERVAL == 5000
WaitDelay == 100

ItemsOfBatch(p) == {k \in 1..p.items : p.i < k /\ k <= p.i + p.batchSize}

\* Date.now() - lastMemoryCheck after ms more milliseconds; beyond the interval the
\* amount makes no difference.
Later(M, ms) ==
    [M EXCEPT !.elapsed = IF @ + ms > MEMORY_CHECK_INTERVAL THEN MEMORY_CHECK_INTERVAL
                          ELSE @ + ms]

\* for (i ...) { while (!checkMemory()) await sleep(100); ... }: checkMemory is asked
\* at the head of a batch and after every sleep.  critical is what
\* performance.memory shows at that moment.
BatchCheckMemory ==
    /\ ret.pc = "checkMemory"
    /\ \E critical \in BOOLEAN :
          LET due == app.elapsed >= MEMORY_CHECK_INTERVAL
              r == checkMemory(app, vec, due, critical)
          IN /\ app' = IF due THEN [r.app EXCEPT !.elapsed = 0] ELSE r.app
             /\ vec' = r.vec
             /\ ret' = IF r.value
                       THEN [ret EXCEPT !.pc = "batch",
                                        !.state = [k \in 1..ret.items |->
                                            IF k \in ItemsOfBatch(ret) THEN "running"
                                            ELSE @[k]]]
                       ELSE [ret EXCEPT !.pc = "sleeping"]
    /\ UNCHANGED <<poolVars, db>>

\* The 100 ms timer of the wait loop fires.
BatchSleepOver ==
    /\ ret.pc = "sleeping"
    /\ app' = Later(app, WaitDelay)
    /\ ret' = [ret EXCEPT !.pc = "checkMemory"]
    /\ UNCHANGED <<poolVars, db, vec>>

\* withRetry(() => processor(item)): one call of the processor settles; a failure
\* is retried until MAX_RETRIES calls have been made, then the item is rejected.
\* long: the call and the retry delay took more than the check interval.
ProcessorSettles ==
    /\ ret.pc = "batch"
    /\ \E k \in ItemsOfBatch(ret), ok \in BOOLEAN, long \in BOOLEAN :
          /\ ret.state[k] = "running"
          /\ ret' = [ret EXCEPT
                       !.calls[k] = @ + 1,
                       !.state[k] = IF ok THEN "fulfilled"
                                    ELSE IF ret.calls[k] + 1 < MAX_RETRIES THEN "running"
                                    ELSE "rejected"]
          /\ app' = IF long THEN Later(app, MEMORY_CHECK_INTERVAL) ELSE app
    /\ UNCHANGED <<poolVars, db, vec>>

\* await Promise.allSettled(batchPromises), the copy of the fulfilled results and the
\* 100 ms pause; then the next batch, or return results.
BatchSettled ==
    /\ ret.pc = "batch"
    /\ \A k \in ItemsOfBatch(ret) : ret.state[k] \in {"fulfilled", "rejected"}
    /\ ret' = [ret EXCEPT
                 !.results = @ \cup {k \in ItemsOfBatch(ret) : ret.state[k] = "fulfilled"},
                 !.i = @ + ret.batchSize,
                 !.pc = IF ret.i + ret.batchSize < ret.items THEN "checkMemory"
                        ELSE "returned"]
    /\ app' = Later(app, WaitDelay)
    /\ UNCHANGED <<poolVars, db, vec>>

\* processBatchInParallel(items, batchSize, processor, onProgress) is called; with
\* no item the loop is not entered.  isMemoryOK starts true and only a measurement
\* makes it false.
InitParallel ==
    /\ InitPoolFields(PoolSize)
    /\ db = <<>>
    /\ vec = InitTfidf
    /\ app \in {[isMemoryOK |-> ok, hasMemoryApi |-> api, elapsed |-> e] :
                   ok \in BOOLEAN, api \in BOOLEAN, e \in {0, MEMORY_CHECK_INTERVAL}}
    /\ app.isMemoryOK \/ app.hasMemoryApi
    /\ ret \in {[pc |-> IF n = 0 THEN "returned" ELSE "checkMemory", i |-> 0, items |-> n,
                 batchSize |-> b, calls |-> [k \in 1..n |-> 0],
                 state |-> [k \in 1..n |-> "waiting"], results |-> {}] :
                   n \in 0..MaxItems, b \in 1..MaxItems}

NextParallel ==
    \/ BatchCheckMemory
    \/ BatchSleepOver
    \/ ProcessorSettles
    \/ BatchSettled

SpecParallel == InitParallel /\ [][NextParallel]_vars

\* The event loop runs every timer and continuation that is due, and every call of
\* the processor settles.
FairSpecParallel == SpecParallel /\ WF_vars(NextParallel)

\* ------------------------------------------------ messages of other types
\* A worker posts a message that names the task it holds and is neither its result
\* nor its error: worker.onmessage passes it to handleWorkerMessage, and the worker
\* goes on with the task.  ret is the last such message with the number handled.
OtherTypes == {"progress", "log", "unknown"}

WorkerOtherMessage(w) ==
    /\ Working(w)
    /\ ret.seen < MaxMessages
    /\ \E type \in OtherTypes :
          /\ InstallPool(handleWorkerMessage(Pool, w,
                                             [type |-> type, taskId |-> Current(w)]))
          /\ ret' = [type |-> type, taskId |-> Current(w), seen |-> ret.seen + 1]
    /\ UNCHANGED <<shutdownTimers, shutdownCalls, app, db, vec>>

InitMessages ==
    /\ InitPoolFields(PoolSize)
    /\ app = <<>>
    /\ db = <<>>
    /\ vec = <<>>
    /\ ret = [type |-> "none", taskId |-> NoTask, seen |-> 0]

NextMessages ==
    \/ AddTask
    \/ \E w \in 1..PoolSize : WorkerResult(w)
    \/ \E w \in 1..PoolSize : WorkerErrorMessage(w)
    \/ \E w \in 1..PoolSize : WorkerOtherMessage(w)

SpecMessages == InitMessages /\ [][NextMessages]_vars

\* ------------------------------------------------------------ VectorCache
\* class VectorCache of the optimized TF-IDF module.  vec is the instance: cache maps
\* a key to its vector (its length, which is all the class looks at), accessOrder
\* maps a key to the value of accessCounter at its last access.  Memory is counted
\* in vector elements: (length * 8) / 2^20 MB is exact in a double.  db lists the
\* keys of the cache from the least to the most recently accessed, ret is the last
\* call.
MaxCacheSize == 2
MaxMemory == 3
MaxVectorLen == 2
MaxCacheCalls == 4

CacheKeys == {"", "a", "b"}

VectorCache(maxSize, maxMemory) ==
    [cache |-> EmptyMap, accessOrder |-> EmptyMap, maxSize |-> maxSize,
     maxMemory |-> maxMemory, currentMemory |-> 0, accessCounter |-> 0]

MapDelete(m, k) == [x \in DOMAIN m \ {k} |-> m[x]]

\* remove(key): a stored Float64Array is an object, so `if (vector)` is the test
\* that the key is stored.
cacheRemove(C, key) ==
    IF key \in DOMAIN C.cache
    THEN [C EXCEPT !.cache = MapDelete(@, key),
                   !.accessOrder = MapDelete(@, key),
                   !.currentMemory = @ - C.cache[key]]
    ELSE C

\* The loop of evictLRU: oldestKey starts as '' and becomes the key of the smallest
\* access value; the values of accessOrder are distinct.
oldestKey(C) ==
    IF DOMAIN C.accessOrder = {} THEN ""
    ELSE CHOOSE k \in DOMAIN C.accessOrder :
             \A j \in DOMAIN C.accessOrder : C.accessOrder[k] <= C.accessOrder[j]

\* if (oldestKey) this.remove(oldestKey): the empty string is falsy.
evictLRU(C) ==
    IF oldestKey(C) # "" THEN cacheRemove(C, oldestKey(C)) ELSE C

RECURSIVE evictWhile(_, _, _)
\* while ((size >= maxSize || currentMemoryMB + memoryMB > maxMemoryMB) && size > 0)
\* evictLRU().  An iteration that changes nothing is repeated for ever: the call
\* does not return.
evictWhile(C, memory, evicted) ==
    LET size == Cardinality(DOMAIN C.cache) IN
    IF (size >= C.maxSize \/ C.currentMemory + memory > C.maxMemory) /\ size > 0
    THEN IF evictLRU(C) = C
         THEN [self |-> C, evicted |-> evicted, returned |-> FALSE]
         ELSE evictWhile(evictLRU(C), memory, Append(evicted, oldestKey(C)))
    ELSE [self |-> C, evicted |-> evicted, returned |-> TRUE]

\* set(key, vector), vector having len elements
cacheSet(C, key, len) ==
    LET r == evictWhile(cacheRemove(C, key), len, <<>>) IN
    IF r.returned
    THEN [r EXCEPT !.self = [r.self EXCEPT
                                !.cache = Put(@, key, len),
                                !.accessOrder = Put(@, key, r.self.accessCounter + 1),
                                !.accessCounter = @ + 1,
                                !.currentMemory = @ + len]]
    ELSE r

\* get(key): a hit counts as an access
cacheGet(C, key) ==
    IF key \in DOMAIN C.cache
    THEN [C EXCEPT !.accessOrder = Put(@, key, C.accessCounter + 1),
                   !.accessCounter = @ + 1]
    ELSE C

cacheClear(C) ==
    [C EXCEPT !.cache = EmptyMap, !.accessOrder = EmptyMap,
              !.currentMemory = 0, !.accessCounter = 0]

\* The list q of keys without the keys of ks.
KeysWithout(q, ks) == SelectSeq(q, LAMBDA k : k \notin ks)

\* A call is made once the call before it has returned.
CacheCallable == ret.returned /\ ret.calls < MaxCacheCalls

CacheSet ==
    /\ CacheCallable
    /\ \E key \in CacheKeys, len \in 0..MaxVectorLen :
          LET r == cacheSet(vec, key, len)
              lru == KeysWithout(db, {key})
          IN /\ vec' = r.self
             /\ db' = IF r.returned
                      THEN Append(KeysWithout(lru, Elements(r.evicted)), key)
                      ELSE KeysWithout(lru, Elements(r.evicted))
             /\ ret' = [op |-> "set", key |-> key, returned |-> r.returned,
                        evicted |-> r.evicted, lru |-> lru, calls |-> ret.calls + 1]
    /\ UNCHANGED <<poolVars, app>>

CacheGet ==
    /\ CacheCallable
    /\ \E key \in CacheKeys :
          /\ vec' = cacheGet(vec, key)
          /\ db' = IF key \in DOMAIN vec.cache
                   THEN Append(KeysWithout(db, {key}), key)
                   ELSE db
          /\ ret' = [op |-> "get", key |-> key, returned |-> TRUE,
                     evicted |-> <<>>, lru |-> db, calls |-> ret.calls + 1]
    /\ UNCHANGED <<poolVars, app>>

CacheClear ==
    /\ CacheCallable
    /\ vec' = cacheClear(vec)
    /\ db' = <<>>
    /\ ret' = [op |-> "clear", key |-> "", returned |-> TRUE,
               evicted |-> <<>>, lru |-> db, calls |-> ret.calls + 1]
    /\ UNCHANGED <<poolVars, app>>

InitCache ==
    /\ InitPoolFields(PoolSize)
    /\ app = <<>>
    /\ db = <<>>
    /\ vec \in {VectorCache(maxSize, maxMemory) :
                   maxSize \in 1..MaxCacheSize, maxMemory \in 1..MaxMemory}
    /\ ret = [op |-> "none", key |-> "", returned |-> TRUE,
              evicted |-> <<>>, lru |-> <<>>, calls |-> 0]

NextCache ==
    \/ CacheSet
    \/ CacheGet
    \/ CacheClear

SpecCache == InitCache /\ [][NextCache]_vars

\* ----------------------------------------------------------------- claims
\* Task t was posted to a worker.
Dispatched(t) == t \in Tasks /\ posts[t] > 0
Settled(t) == t \in Tasks /\ future[t] # "pending"
Queued(t) == \E i \in DOMAIN taskQueue : taskQueue[i].id = t
QueuedIds == {taskQueue[i].id : i \in DOMAIN taskQueue}
BusyWorkers == {w \in DOMAIN workers : workers[w].isBusy}

InboxOf(w) == workers[w].worker.inbox
HeldTasks == {t \in Tasks : \E w \in DOMAIN workers :
                 \E i \in DOMAIN InboxOf(w) : InboxOf(w)[i] = t}
WithFuture(state) == {t \in Tasks : future[t] = state}

\* C1: every task dispatched to a worker has its future settled exactly once: no
\* future receives a second resolve/reject call, and, when every live worker
\* eventually reports an outcome for the task it holds, none stays pending forever.
C1_SettledExactlyOnce ==
    \A t \in 1..MaxTasks :
        /\ [](Dispatched(t) => settleCalls[t] <= 1)
        /\ (Dispatched(t) ~> Settled(t))

\* C2: scenario 3 ends with all 20 futures settled, 19 resolved and exactly one
\* rejected, and with getNumWorkers() still 4.
ScenarioDone ==
    /\ Submitted = ScenarioTasks
    /\ taskQueue = <<>>
    /\ \A w \in DOMAIN workers : ~Working(w)

C2_Scenario3Completes ==
    ScenarioDone =>
        /\ WithFuture("pending") = {}
        /\ Cardinality(WithFuture("resolved")) = ScenarioTasks - 1
        /\ Cardinality(WithFuture("error")) = 1
        /\ getNumWorkers = ScenarioWorkers

\* C3: a cancelAllTasks call rejects with the cancellation error the future of every
\* task that is waiting in the queue when it is called.
C3_CancelRejectsQueued ==
    [][CancelAllTasks => \A t \in QueuedIds : future'[t] = "cancelled"]_vars

\* C4: a cancelAllTasks call (also the one shutdown makes) rejects with the
\* cancellation error, by exactly one settle call, the future of every task in flight
\* on a busy worker, and tears down the unit of each busy worker: the unit that held
\* the task is gone and no unit is leaked.
C4_CancelRejectsInFlight ==
    /\ [][(CancelAllTasks \/ Shutdown) =>
             /\ \A w \in BusyWorkers :
                   LET t == workers[w].taskId IN
                   /\ t \in Tasks
                   /\ future[t] = "pending" =>
                         future'[t] = "cancelled" /\ settleCalls'[t] = 1
                   /\ workers'[w].worker.gen # workers[w].worker.gen
                   /\ t \notin HeldTasks'
             /\ liveUnits' = liveUnits]_vars
    /\ [](\A t \in Tasks : future[t] = "cancelled" => settleCalls[t] = 1)

C4_Witness ==
    \E t \in Tasks : posts[t] = 1 /\ future[t] = "cancelled" /\ settleCalls[t] = 1

\* C5: when cancelAllTasks returns the queue is empty, no task is in flight, and
\* every worker that was busy is idle with a newly created, live unit (so a task
\* submitted afterwards goes to a live worker). Stated of both pools' cancelAllTasks.
C5_PoolUsableAfterCancel ==
    [][(CancelAllTasks \/ LegacyCancelAllTasks) =>
          /\ taskQueue' = <<>>
          /\ taskPromises' = {}
          /\ HeldTasks' = {}
          /\ \A w \in BusyWorkers :
                /\ ~workers'[w].isBusy
                /\ workers'[w].worker.alive
                /\ workers'[w].worker.gen > workers[w].worker.gen]_vars

\* C6: a worker's unit never holds more than one task: every dispatch goes to a
\* worker that was idle and whose unit held nothing, so at most pool-size tasks are
\* in progress.
C6_OneTaskPerWorker ==
    /\ \A w \in DOMAIN workers : Len(InboxOf(w)) <= 1
    /\ \A i \in DOMAIN dispatches :
          dispatches[i].held = 0 /\ dispatches[i].worker \in dispatches[i].idle
    /\ Cardinality(HeldTasks) <= PoolSize
    /\ Cardinality(BusyWorkers) <= PoolSize

\* A worker holds a second task after it reported on an earlier one.
C6_Witness ==
    \E w \in DOMAIN workers : InboxOf(w) # <<>> /\ Head(InboxOf(w)) > PoolSize

\* C7: a task is posted to a worker at most once, and a task whose future was
\* rejected (worker error, critical error, cancellation) is never queued or held by
\* a worker again.
C7_PostedAtMostOnce ==
    \A t \in Tasks :
        /\ posts[t] <= 1
        /\ future[t] \in {"error", "cancelled"} => ~Queued(t) /\ t \notin HeldTasks

\* A task failed by a critical error (its worker was restarted) and a later task
\* was dispatched.
C7_Witness ==
    \E t, u \in Tasks :
        /\ future[t] = "error" /\ posts[t] = 1
        /\ u > t /\ posts[u] = 1
        /\ \E w \in DOMAIN workers : workers[w].worker.gen > 1

\* C8: while the pool is not shutting down a queued task never waits beside an idle
\* worker: when the queue is not empty every worker is busy with a task its live
\* unit holds, and, every worker eventually reporting, every queued task eventually
\* leaves the queue (dispatched or cancelled).
C8_QueueDrains ==
    /\ [](~shuttingDown /\ taskQueue # <<>> =>
            \A w \in DOMAIN workers : workers[w].isBusy /\ Working(w))
    /\ \A t \in 1..MaxTasks : Queued(t) ~> ~Queued(t)

\* A task that had to wait was dispatched to the worker that had just been freed.
C8_Witness ==
    \E i \in DOMAIN dispatches :
        /\ dispatches[i].task > PoolSize
        /\ dispatches[i].idle = {dispatches[i].worker}

\* C9: every dispatch takes the oldest queued task and gives it to the lowest-index
\* idle worker, and no task is dispatched while an older one is still queued.
C9_FifoDispatch ==
    /\ \A i \in DOMAIN dispatches :
          /\ dispatches[i].task = MinOf(dispatches[i].queued)
          /\ dispatches[i].worker = MinOf(dispatches[i].idle)
    /\ \A t \in Tasks : \A q \in QueuedIds : posts[t] > 0 => t < q

\* A dispatch chose among several queued tasks.
C9_Witness ==
    \E i \in DOMAIN dispatches : Cardinality(dispatches[i].queued) >= 2

\* C10: once shutdown has completed every task submitted before has a settled
\* future (none pending), no live unit remains, getNumWorkers() is 0, nothing is
\* posted any more and every later addTask is rejected.
ShutdownDone == shutdownCalls > 0 /\ shutdownTimers = 0

C10_ShutdownLeavesNothing ==
    /\ [](ShutdownDone =>
            /\ WithFuture("pending") = {}
            /\ liveUnits = 0
            /\ getNumWorkers = 0)
    /\ [][ShutdownDone =>
            /\ \A t \in Tasks : posts'[t] = posts[t]
            /\ \A t \in Tasks' \ Tasks : future'[t] = "shuttingDown" /\ posts'[t] = 0]_vars

\* C11: once shutdown has begun, addTask returns a future that is already rejected
\* with the shutting-down error, and the task it was called with is neither put in
\* the queue nor ever posted to a worker.
C11_RejectedWhileShuttingDown ==
    /\ [][shuttingDown =>
            \A t \in Tasks' \ Tasks :
                /\ future'[t] = "shuttingDown"
                /\ settleCalls'[t] = 1
                /\ taskQueue' = taskQueue
                /\ taskPromises' = taskPromises]_vars
    /\ [](\A t \in Tasks :
            future[t] = "shuttingDown" =>
                posts[t] = 0 /\ ~Queued(t) /\ t \notin HeldTasks /\ t \notin taskPromises)

\* A task was submitted after shutdown had begun, and the shutdown has completed.
C11_Witness ==
    /\ ShutdownDone
    /\ \E t \in Tasks : future[t] = "shuttingDown"

\* C12: a non-critical failure while worker w holds task t (an 'error' message, a
\* messageerror event, an error event not classified as critical) rejects t's future
\* and no other (a task whose future changes in the same handler is one the handler
\* took from the queue and failed to post), leaves the other workers as they were,
\* keeps w's unit (not terminated, not replaced), and leaves w idle or, when a task
\* was waiting, holding the oldest queued task.
NonCriticalErrorEvent(w) ==
    /\ Working(w)
    /\ \E event \in ErrorEvents :
          ~isWorkerCriticalError(event) /\ Install(onerror(Reported(w), w, event))
    /\ UNCHANGED <<shutdownTimers, shutdownCalls>>

NonCriticalFailure(w) ==
    WorkerErrorMessage(w) \/ WorkerMessageError(w) \/ NonCriticalErrorEvent(w)

DispatchedTasks(ds) == {ds[i].task : i \in DOMAIN ds}

C12_NonCriticalFailureIsolated ==
    [][\A w \in 1..PoolSize :
          NonCriticalFailure(w) /\ workers[w].taskId = Current(w) =>
              LET t == Current(w) IN
              /\ future[t] = "pending" /\ future'[t] = "error" /\ settleCalls'[t] = 1
              /\ \A u \in Tasks \ {t} :
                    future'[u] # future[u] =>
                        u \in DispatchedTasks(dispatches') /\ posts'[u] = 0
              /\ \A v \in DOMAIN workers \ {w} : workers'[v] = workers[v]
              /\ workers'[w].worker.alive
              /\ workers'[w].worker.gen = workers[w].worker.gen
              /\ liveUnits' = liveUnits
              /\ IF taskQueue = <<>> \/ shuttingDown
                 THEN /\ ~workers'[w].isBusy
                      /\ workers'[w].taskId = NoTask
                      /\ workers'[w].worker.inbox = <<>>
                 ELSE /\ dispatches' # <<>>
                      /\ dispatches'[1].worker = w
                      /\ dispatches'[1].task = Head(taskQueue).id
                      /\ t \notin HeldTasks']_vars

\* The only settled task failed in its worker with no unit replaced, and the handler
\* that ran last gave the oldest of several waiting tasks to a worker.
C12_Witness ==
    /\ \E t \in Tasks :
          /\ future[t] = "error" /\ posts[t] = 1
          /\ \A u \in Tasks \ {t} : future[u] = "pending"
    /\ \A w \in DOMAIN workers : workers[w].worker.gen = 1
    /\ dispatches # <<>>
    /\ Cardinality(dispatches[1].queued) >= 2
    /\ InboxOf(dispatches[1].worker) = <<dispatches[1].task>>

\* C13: a source is marked processed only by the handling of one of its tasks whose
\* scoring produced at least one match; the handling of a task that returned no
\* match or that failed or was cancelled marks nothing, a marked source has a task
\* that produced a match, and every source that is not marked when a run starts is
\* selected for processing in that run.
HandledNow(t) == app.handled[t] = "no" /\ app'.handled[t] # "no"
ReturnedNow(t) == app.inlinePromise[t] = "pending" /\ app'.inlinePromise[t] = "resolved"

C13_MarkedOnlyWithMatches ==
    /\ [][\A s \in Sources :
            s \in db'.processed \ db.processed =>
                \E t \in AppTasks :
                    /\ app.sourceOf[t] = s
                    /\ app'.scored[t].matches >= 1
                    /\ HandledNow(t) \/ ReturnedNow(t)]_vars
    /\ [][\A t \in AppTasks :
            /\ HandledNow(t) \/ ReturnedNow(t)
            /\ app'.handled[t] = "failed" \/ app'.scored[t].matches = 0
            => db'.processed = db.processed]_vars
    /\ [](\A s \in db.processed :
            \E t \in AppTasks : app.sourceOf[t] = s /\ app.scored[t].matches >= 1)
    /\ [][app'.run # app.run =>
            \A s \in Sources \ db.processed :
                \E i \in DOMAIN app'.urlsToProcess : app'.urlsToProcess[i] = s]_vars

\* In the second run: a source that matched in the first run is marked and is not
\* submitted again, a source whose first task returned no match is submitted again.
C13_Witness ==
    \E s1, s2 \in Sources :
        /\ app.run = MaxRuns
        /\ s1 \in db.processed /\ s2 \notin db.processed
        /\ \E t \in TasksOfRun(1) :
              /\ app.sourceOf[t] = s2
              /\ app.handled[t] = "delivered" /\ app.scored[t].matches = 0
        /\ \E t \in TasksOfRun(MaxRuns) : app.sourceOf[t] = s2
        /\ \A t \in TasksOfRun(MaxRuns) : app.sourceOf[t] # s1

\* C14: when the task of one source has failed and nothing was cancelled, the tasks
\* of the other sources are still processed: once nothing is left to run, every task
\* has been handled (its result delivered, or its own failure logged), the results
\* delivered in the current run are in the result list, and the completion step of
\* every run has executed.
RunIdle ==
    /\ \A w \in DOMAIN workers : ~Working(w)
    /\ \A t \in AppTasks :
          /\ app.workerPool \/ app.inlinePromise[t] # "pending"
          /\ TaskPromise(t) # "pending" => app.handled[t] # "no"
    /\ \A r \in 1..app.run :
          (TasksOfRun(r) # {} /\ \A t \in TasksOfRun(r) : TaskPromise(t) # "pending")
              => r \in app.settled

NothingCancelled ==
    /\ app.abortController # "aborted"
    /\ \A t \in AppTasks : TaskPromise(t) # "cancelled"

C14_FailureIsolated ==
    (RunIdle /\ NothingCancelled /\ \E t \in AppTasks : TaskPromise(t) = "error") =>
        /\ \A u \in AppTasks :
              /\ app.handled[u] # "no"
              /\ (app.handled[u] = "delivered" /\ app.runOf[u] = app.run) =>
                    \E i \in DOMAIN app.results :
                        app.results[i].sourceUrl = app.sourceOf[u]
        /\ \A r \in 1..app.run : TasksOfRun(r) # {} => r \in app.settled

\* C15: when the matches of a source have been computed and marking the source or
\* storing its matches did not go through, the task is not a failure: its promise is
\* not rejected with an error and, once handled, its result is delivered and (in the
\* current run) in the result list with its matches.
PersistedFully(t) ==
    /\ app.sourceOf[t] \in db.processed
    /\ Cardinality(db.stored[app.sourceOf[t]]) >= app.scored[t].matches

C15_PersistenceBestEffort ==
    \A t \in AppTasks :
        (app.scored[t].matches >= 1 /\ ~PersistedFully(t)) =>
            /\ TaskPromise(t) # "error"
            /\ app.handled[t] # "failed"
            /\ (app.handled[t] = "delivered" /\ app.runOf[t] = app.run) =>
                  \E i \in DOMAIN app.results :
                      /\ app.results[i].sourceUrl = app.sourceOf[t]
                      /\ app.results[i].matches = app.scored[t].matches

\* C18: calculateTFIDF never returns a vector computed under a vocabulary and IDF
\* table other than the ones in force when it returns: whatever calls of
\* precomputeIDF, calculateTFIDF and clearVectorCache came before, the vector it
\* hands out belongs to the current vocabulary generation.
C18_NoStaleVector ==
    (ret.op = "calculateTFIDF" /\ ~ret.threw) => ret.value.table = Table(vec)

\* C19: checkCorpusChanged(c) answers true for every corpus c that differs from the
\* corpus last passed to precomputeIDF (and when there is no such corpus).
C19_EveryChangeDetected ==
    (ret.op = "checkCorpusChanged" /\ (~vec.hasCorpus \/ ret.arg # vec.corpus))
        => ret.value = TRUE

\* C16: scoring a source document inline on the main thread and scoring it as a
\* pool task, against the same precomputed target data, give the same observable
\* outcome: delivered or failed alike, the same match list, the same
\* shouldMarkProcessed flag, the same persistence writes in the same order.
C16_InlineEqualsPool ==
    ret.op = "score" => ret.value.inline = ret.value.pool

\* The targets' vocabulary and the source document of the last scoring share no term.
NoSharedTerm ==
    TermsOf(ret.arg) \cap
        UNION {TermsOf(app.precomputedData.processedTargets[i]) :
                  i \in DOMAIN app.precomputedData.processedTargets} = {}

\* C17: a scoring task whose source document shares no vocabulary term with any
\* target completes successfully, with an empty match list and shouldMarkProcessed
\* false, and the source is not marked processed.
C17_NoOverlapCompletesEmpty ==
    (ret.op = "score" /\ NoSharedTerm) =>
        /\ ret.value.pool.status = "delivered"
        /\ ret.value.pool.matches = <<>>
        /\ ~ret.value.pool.shouldMarkProcessed
        /\ \A i \in DOMAIN ret.value.pool.writes : ret.value.pool.writes[i] # "mark"

\* C20: processCandidates and batchCosineSimilarity fail with an error whenever a
\* target vector's dimension differs from the source vector's.
C20_MismatchIsAnError ==
    (/\ ret.op \in {"processCandidates", "batchCosineSimilarity"}
     /\ \E i \in DOMAIN ret.arg.targetVectors :
           Dim(ret.arg.targetVectors[i]) # Dim(ret.arg.sourceVector))
        => ret.threw

\* C21: with no maxCandidates option, processCandidates returns exactly min(5, q)
\* candidates, q being the number of candidates whose similarity is at least the
\* threshold; they are the highest-scoring ones, in descending order of similarity.
C21_TopFiveReturned ==
    ret.op = "parallelProcessor.processCandidates" =>
        LET sims == ret.arg
            out == ret.value
            q == Cardinality({i \in DOMAIN sims : sims[i] >= ParallelThreshold})
            returned == {out[k] : k \in DOMAIN out}
        IN /\ Len(out) = IF q < MAX_MATCHES THEN q ELSE MAX_MATCHES
           /\ Cardinality(returned) = Len(out)
           /\ returned \subseteq {i \in DOMAIN sims : sims[i] >= ParallelThreshold}
           /\ \A k \in 1..(Len(out) - 1) : sims[out[k]] >= sims[out[k + 1]]
           /\ \A i \in DOMAIN sims \ returned : \A j \in returned : sims[i] <= sims[j]

\* C22: for an operation that keeps failing with retryable errors, the retry
\* wrapper makes at most 3 attempts in total, waits between consecutive attempts a
\* delay that starts at 1 s and doubles each time, and then throws the last error.
C22_BoundedBackoff ==
    (ret.op = "withRetry" /\ ret.allRetryable) =>
        /\ ret.attempts <= 3
        /\ \A k \in DOMAIN ret.delays :
              ret.delays[k] = IF k = 1 THEN 1000 ELSE 2 * ret.delays[k - 1]
        /\ ret.state = "thrown" => ret.thrown = ret.errors[Len(ret.errors)]

\* C23: when the operation wrapped in lib/supabase's withRetry fails with an error
\* for which isRetryableError is false, that attempt is the last one and no wait
\* follows it: the error is thrown at once. If it is the first failure, exactly one
\* attempt was made and there was no wait at all.
C23_NonRetryableThrownAtOnce ==
    (ret.op = "withRetry" /\ ret.impl = "supabase") =>
        \A k \in DOMAIN ret.errors :
            ret.errors[k] \in {Err("no rows", "PGRST116", 406),
                               Err("permission denied", "42501", 403), DataError}
                => /\ k = Len(ret.errors)
                   /\ ret.state = "thrown" /\ ret.thrown = ret.errors[k]
                   /\ Len(ret.delays) = k - 1
                   /\ ret.attempts = k

C23_Witness ==
    /\ ret.op = "withRetry" /\ ret.impl = "supabase" /\ ret.state = "thrown"
    /\ ret.attempts = 1 /\ ret.delays = <<>>
    /\ ret.thrown = Err("permission denied", "42501", 403)

\* C24: a DataError raised while an item is processed in a batch is never retried:
\* the processor is invoked exactly once for the item and the error surfaces with
\* no retry delay.
C24_DataErrorNotRetried ==
    (ret.op = "withRetry" /\ ret.impl = "parallelProcessor" /\ ret.item = "noUrl") =>
        /\ ret.attempts <= 1
        /\ ret.delays = <<>>
        /\ ret.attempts = 1 => ret.state = "thrown" /\ ret.thrown = DataError

\* Two URL lists are permutations of each other.
Permuted(a, b) ==
    /\ Len(a) = Len(b)
    /\ \A u \in 1..NumUrls : Count(a, u) = Count(b, u)

\* C25: two calls of getTargetUrlListId whose URL lists are permutations of each
\* other return the same id, however the calls interleave, and the table never
\* holds two records for one URL set.
C25_OneIdPerUrlSet ==
    /\ \A p, q \in 1..NumCallers :
          (ret[p].pc = "returned" /\ ret[q].pc = "returned"
              /\ Permuted(ret[p].urls, ret[q].urls)) => ret[p].id = ret[q].id
    /\ \A r1, r2 \in db.rows : Permuted(r1.urls, r2.urls) => r1 = r2

\* Both calls ran concurrently on permuted lists: one lost the insert to the
\* other, was retried, and both returned.
C25_Witness ==
    /\ ret[1].pc = "returned" /\ ret[2].pc = "returned"
    /\ ret[1].urls # ret[2].urls /\ Permuted(ret[1].urls, ret[2].urls)
    /\ ret[1].retries < MAX_RETRIES
    /\ Cardinality(db.rows) = 1

\* C26: once precomputeIDF has built the vocabulary, the vector calculateTFIDF
\* returns for a document is all zero exactly when none of the document's terms is
\* in the vocabulary, whichever optional arguments the call is given (a vector that
\* is not all zero is L2-normalised).
C26_ZeroOnlyWithoutVocabularyTerm ==
    (ret.op = "calculateTFIDF" /\ ~ret.threw /\ ~NoTermIndices(vec)) =>
        ((\A i \in DOMAIN ret.value.weights : ret.value.weights[i] = 0)
            <=> TermsOf(ret.arg) \cap DOMAIN vec.termIndexCache = {})

\* C27: InvertedIndex.search(queryTerms), for a query of at least one term, returns
\* exactly the ids of the indexed documents that contain every query term; a query
\* term that occurs in no indexed document makes the result empty.
C27_SearchIsIntersection ==
    (ret.op = "search" /\ ret.arg # <<>>) =>
        Elements(ret.value) =
            {docId \in DOMAIN db.documents : TermsOf(ret.arg) \subseteq TermsOf(db.documents[docId])}

\* C28: PrefixIndex.findCandidates(phrase), for a phrase with at least one word of 3
\* characters or more, returns exactly the documents that, for every such word of
\* the phrase, contain a word with the same 3-character prefix.
C28_CandidatesAreIntersection ==
    (ret.op = "findCandidates" /\ PrefixesOf(ret.arg) # {}) =>
        ret.value =
            {docId \in 1..MaxDocs :
                \A prefix \in PrefixesOf(ret.arg) :
                    <<docId, prefix>> \in db.added}

\* The elementwise minimum, over the terms, of the hash functions' values.
MinimumHashes(terms) ==
    [i \in 1..db.numHashes |-> MinOf({termHash(i, term) : term \in terms})]

\* C29: for a non-empty term set, the signature stored by addDocument, and the one
\* findSimilarDocuments computes for a query, holds at each position i the minimum
\* over the terms of the i-th hash function's value; the document is in the bucket
\* of each band slice of its signature.
C29_SignatureIsMinimum ==
    /\ (ret.op = "minHash.addDocument" /\ ret.arg.terms # {}) =>
          /\ db.documents[ret.arg.docId] = MinimumHashes(ret.arg.terms)
          /\ \A key \in bucketKeys(db, db.documents[ret.arg.docId]) :
                key \in DOMAIN db.buckets /\ ret.arg.docId \in db.buckets[key]
    /\ (ret.op = "findSimilarDocuments" /\ ret.arg.terms # {}) =>
          ret.value.signature = MinimumHashes(ret.arg.terms)

\* C30: after add calls with no clear in between, test(x) returns true for every
\* value x that was added, whatever size and hash count the constructor gave the
\* filter.
C30_NoFalseNegative ==
    (ret.op = "bloom.test" /\ ret.arg \in db.added) => (~ret.threw /\ ret.value = TRUE)

\* C31: when the handling of an event recreates the execution unit of worker w (a
\* critical failure restarts it), every task that handling dispatches to w is
\* posted to the recreated unit: none goes to w before the restart has completed.
C31_NoDispatchBeforeRestart ==
    [][\A w \in DOMAIN workers :
          (w \in DOMAIN workers' /\ workers'[w].worker.gen # workers[w].worker.gen) =>
              \A i \in DOMAIN dispatches' :
                  dispatches'[i].worker = w =>
                      dispatches'[i].gen = workers'[w].worker.gen]_vars

\* C32: after every handled event the bookkeeping is consistent: the ids in
\* taskPromises are exactly the taskId values of the busy workers, one id per busy
\* worker, and every task whose future is unsettled is in taskQueue or in
\* taskPromises, in exactly one of the two.
C32_BookkeepingConsistent ==
    /\ taskPromises = {workers[w].taskId : w \in BusyWorkers}
    /\ \A v, w \in BusyWorkers : workers[v].taskId = workers[w].taskId => v = w
    /\ \A t \in Tasks :
          future[t] = "pending" => (Queued(t) /\ t \notin taskPromises)
                                       \/ (~Queued(t) /\ t \in taskPromises)

\* C33: for every task message a worker script posts exactly one terminal message
\* ('result' or 'error'): never a second one, one when the handling has ended, and
\* every message posted for the task carries the task's id.
TerminalMessages == {i \in DOMAIN ret.posted : ret.posted[i].type \in {"result", "error"}}

C33_OneTerminalMessage ==
    /\ Cardinality(TerminalMessages) <= 1
    /\ ret.pc = "done" => Cardinality(TerminalMessages) = 1
    /\ \A i \in DOMAIN ret.posted : ret.posted[i].taskId = ret.id

C33_Witness ==
    /\ db.script = "similarity" /\ ret.pc = "done" /\ ret.payload.complete
    /\ Len(ret.posted) = 2
    /\ ret.posted[1].type = "progress" /\ ret.posted[2].type = "error"

\* C34: while a processing run is in progress (the vocabulary of its corpus has
\* been built) the vocabulary, the term index and the IDF table are neither cleared
\* nor rebuilt, whatever checkMemory finds in between.
C34_TableKeptDuringRun ==
    [][vec.globalVocabulary # Null => TfidfTable(vec') = TfidfTable(vec)]_vars

\* C35: precomputeIDF, hasCorpusChanged and calculateTFIDF leave every document's
\* term array as it was: the same elements in the same order.
C35_TermsNotModified ==
    [][ret'.op \in {"tfidf.precomputeIDF", "hasCorpusChanged", "tfidf.calculateTFIDF"}
          => db' = db]_vars

\* C36: a source is marked processed only after at least one of its matches has
\* been stored in the similarity results: no state of the persistence layer has a
\* marked source without a stored match.
C36_ProcessedHasStoredMatch ==
    \A s \in db.processed : db.stored[s] # {}

\* C37: in a compareUrls run every source of the input gets a result from the
\* persistence cache or is submitted for scoring in that run.
C37_CachedOrSubmitted ==
    [][app'.run # app.run =>
          \A s \in Sources :
              \/ \E i \in DOMAIN app'.results : app'.results[i].sourceUrl = s
              \/ \E t \in DOMAIN app'.sourceOf :
                    t \notin AppTasks /\ app'.sourceOf[t] = s]_vars

\* C38: processBatchInParallel returns for every finite input whose processor calls
\* all settle, whatever checkMemory reports over time, and the processor is called
\* at most 3 times for an item.
C38_BatchReturns ==
    /\ <>(ret.pc = "returned")
    /\ [](\A k \in DOMAIN ret.calls : ret.calls[k] <= 3)

\* C39: a worker message whose type is none of result, error, progress or log is
\* reported to the caller for the task it names: once the pool has handled it, the
\* future of that task is no longer pending.
C39_UnknownTypeReported ==
    [][(ret'.seen # ret.seen /\ ret'.type = "unknown") =>
           future'[ret'.taskId] # "pending"]_vars

\* C40: for a VectorCache with maxSize >= 1, after any set, get and clear calls with
\* arbitrary string keys: the call has returned, size() <= maxSize, cache and
\* accessOrder hold the same keys, and the evictions of the call removed the keys
\* whose last access was the oldest, oldest first.
C40_CacheBoundedLRU ==
    /\ ret.returned
    /\ Cardinality(DOMAIN vec.cache) <= vec.maxSize
    /\ DOMAIN vec.cache = DOMAIN vec.accessOrder
    /\ \A i \in DOMAIN ret.evicted :
          i <= Len(ret.lru) /\ ret.evicted[i] = ret.lru[i]

====
